---- MODULE Spec2Model ----
(***************************************************************************)
(* Model of the persistent B+tree slice table of src/src/btree.c.          *)
(*                                                                         *)
(* Memory is modelled explicitly: a heap of tree nodes, a heap of byte     *)
(* buffers (small slice buffers and block data) and a heap of block        *)
(* headers.  A pointer is a pair (object, offset); NULL is (0, 0).  Arrays *)
(* are functions on 0..N-1 so that the index arithmetic of the C code is   *)
(* carried over unchanged.  Every public function of the library is one    *)
(* action; the functions it calls are operators that thread the machine    *)
(* state m = [nodes, bufs, blocks, st, fault] the way the C code mutates   *)
(* it.                                                                     *)
(*                                                                         *)
(* The code is parametric in HIGH_WATER and B (derived from NODESIZE); the *)
(* model instantiates them with small values (and ULONG_MAX with a number  *)
(* larger than every size in the model) to keep the state space finite.    *)
(***************************************************************************)
EXTENDS Integers, Sequences, FiniteSets, TLC

\* src/src/btree.c:22   #define HIGH_WATER (1<<10)      (scaled)
HIGH_WATER == 2
\* src/src/btree.c:41   #define B ((int)(NODESIZE / PER_B))   (scaled, odd as in the code)
B == 3
\* src/src/btree.c:109  the EMPTY sentinel of a dead slot      (scaled)
ULONG_MAX == 1000000
\* src/src/btree.c:940
STACKSIZE == 3

VARIABLES
    nodes,      \* heap of struct node
    bufs,       \* heap of byte buffers (malloc(HIGH_WATER), block data, mmap)
    blocks,     \* heap of struct block
    sts,        \* the SliceTable handles
    iter,       \* the SliceIter (st = 0: there is none)
    fault,      \* "none", or the way the process died
    shadow,     \* ghost: per handle, the edits applied to a plain byte string
    lfsum,      \* ghost: per handle, the newlines of the first content, plus the
                \*        results of st_insert, minus the results of st_delete
    last,       \* ghost: the last public call and what it returned
    walk,       \* ghost: the chunks the walk over the iterator has read
    budget,     \* ghost: number of edits still explored
    thr,        \* the threads that edit concurrently, each with its position
    io,         \* what the last st_new_from_file left behind in the process
    call        \* a function of the library called on its own: its arguments and results

vars == <<nodes, bufs, blocks, sts, iter, fault, shadow, lfsum, last, walk, budget, thr, io, call>>

MIN(a, b) == IF a < b THEN a ELSE b
MAX(a, b) == IF a > b THEN a ELSE b

LF == "\n"
\* the value of a byte that was never written
UNINIT == "?"

NULL == [a |-> 0, o |-> 0]
Ptr(a, o) == [a |-> a, o |-> o]
IsNull(p) == p.a = 0

Slots == 0 .. (B - 1)

\* memmove/memcpy inside one array: n elements from index s to index d
MemMove(arr, d, s, n) ==
    [k \in DOMAIN arr |-> IF k >= d /\ k < d + n THEN arr[s + (k - d)] ELSE arr[k]]

\* memcpy between arrays: n elements of src from s into dst at d
MemCpy(dst, d, src, s, n) ==
    [k \in DOMAIN dst |-> IF k >= d /\ k < d + n THEN src[s + (k - d)] ELSE dst[k]]

Pad(bytes, cap) == bytes \o [k \in 1 .. (cap - Len(bytes)) |-> UNINIT]

----------------------------------------------------------------------------
(* blocks *)

RECURSIVE count_lfs(_)
count_lfs(s) ==
    IF s = <<>> THEN 0
    ELSE (IF Head(s) = LF THEN 1 ELSE 0) + count_lfs(Tail(s))

\* the n bytes at pointer p
Rd(m, p, n) == SubSeq(m.bufs[p.a].data, p.o + 1, p.o + n)

\* malloc of a byte buffer holding data; the new buffer is Len(m.bufs) + 1
AllocBuf(m, data) == [m EXCEPT !.bufs = Append(@, [data |-> data, live |-> TRUE])]

\* free of the allocation p points to; free(NULL) does nothing
FreeBuf(m, p) ==
    IF IsNull(p) THEN m
    ELSE IF ~m.bufs[p.a].live \/ p.o # 0
         THEN [m EXCEPT !.fault = IF @ = "none" THEN "bad free" ELSE @]
         ELSE [m EXCEPT !.bufs[p.a].live = FALSE]

block_insert(data, off, new, len) ==
    SubSeq(SubSeq(data, 1, off) \o new \o SubSeq(data, off + 1, Len(data)), 1, Len(data))

\* memmove towards the front: the last len bytes of the buffer keep their old values
block_delete(data, off, len) ==
    SubSeq(data, 1, off) \o SubSeq(data, off + len + 1, Len(data))
        \o SubSeq(data, Len(data) - len + 1, Len(data))

----------------------------------------------------------------------------
(* tree utilities *)

\* a node_clrslots that forgets the spans: only the memset of the child pointers
node_clrslots_child(node, from, to) ==
    [node EXCEPT !.child = [k \in Slots |-> IF k >= from /\ k < to THEN NULL ELSE @[k]]]

node_clrslots(node, from, to) ==
    [node EXCEPT !.spans = [k \in Slots |-> IF k >= from /\ k < to THEN ULONG_MAX ELSE @[k]],
                 !.child = [k \in Slots |-> IF k >= from /\ k < to THEN NULL ELSE @[k]]]

FreshNode ==
    [refc |-> 1, live |-> TRUE,
     spans |-> [k \in Slots |-> ULONG_MAX],
     child |-> [k \in Slots |-> NULL]]

\* new_node: the new node is Len(m.nodes) + 1
new_node(m) == [m EXCEPT !.nodes = Append(@, FreshNode)]

RECURSIVE SumTo(_, _)
SumTo(spans, fill) == IF fill <= 0 THEN 0 ELSE spans[fill - 1] + SumTo(spans, fill - 1)

node_sum(node, fill) == SumTo(node.spans, fill)

RECURSIVE node_offset_loop(_, _, _)
node_offset_loop(spans, i, key) ==
    IF key > spans[i] THEN node_offset_loop(spans, i + 1, key - spans[i])
    ELSE [i |-> i, key |-> key]

node_offset(node, key) == node_offset_loop(node.spans, 0, key)

RECURSIVE node_fill_loop(_, _)
node_fill_loop(child, i) ==
    IF i < B /\ ~IsNull(child[i]) THEN node_fill_loop(child, i + 1) ELSE i

node_fill(node, start) == node_fill_loop(node.child, start)


\* the process dies (the first fault is kept)
Fault(m, what) == [m EXCEPT !.fault = IF @ = "none" THEN what ELSE @]

RECURSIVE FreeSmall(_, _, _, _)
\* drop_node's loop over a leaf: free(root->child[i]) for each small slice
FreeSmall(m, root, fill, i) ==
    IF i >= fill THEN m
    ELSE FreeSmall(IF m.nodes[root].spans[i] <= HIGH_WATER
                   THEN FreeBuf(m, m.nodes[root].child[i]) ELSE m,
                   root, fill, i + 1)

RECURSIVE drop_node(_, _, _)
RECURSIVE DropChildren(_, _, _, _, _)
DropChildren(m, root, level, fill, i) ==
    IF i >= fill THEN m
    ELSE DropChildren(drop_node(m, m.nodes[root].child[i].a, level - 1),
                      root, level, fill, i + 1)

drop_node(m, root, level) ==
    LET old == m.nodes[root].refc
        m1 == [m EXCEPT !.nodes[root].refc = old - 1]
        fill == node_fill(m.nodes[root], 0)
    IN  IF ~m.nodes[root].live THEN Fault(m, "use after free")
        ELSE IF old # 1 THEN m1
        ELSE LET m2 == IF level = 1 THEN FreeSmall(m1, root, fill, 0)
                       ELSE DropChildren(m1, root, level, fill, 0)
             IN  [m2 EXCEPT !.nodes[root].live = FALSE]

free_block(m, b) ==
    \* munmap/free of the data, then free of the header
    LET d == m.blocks[b].data
        m1 == IF m.bufs[d].live THEN [m EXCEPT !.bufs[d].live = FALSE]
              ELSE [m EXCEPT !.fault = IF @ = "none" THEN "bad free" ELSE @]
    IN  [m1 EXCEPT !.blocks[b].live = FALSE]

\* a drop_block that releases the block whatever its count
drop_block_eager(m, b) ==
    IF ~m.blocks[b].live THEN Fault(m, "use after free")
    ELSE free_block([m EXCEPT !.blocks[b].refc = @ - 1], b)

RECURSIVE drop_block(_, _)
drop_block(m, b) ==
    LET old == m.blocks[b].refc
        m1 == [m EXCEPT !.blocks[b].refc = old - 1]
    IN  IF ~m.blocks[b].live THEN Fault(m, "use after free")
        ELSE IF old # 1 THEN m1
        ELSE LET m2 == IF m.blocks[b].next # 0 THEN drop_block(m1, m.blocks[b].next)
                       ELSE m1
             IN  free_block(m2, b)

RECURSIVE CopySmall(_, _, _, _)
\* ensure_node_editable's leaf loop: the fresh buffer is stored in node->child[i],
\* that is in the node being copied FROM (the inner "copy" shadows the node copy)
CopySmall(m, node, fill, i) ==
    IF i >= fill THEN m
    ELSE IF m.nodes[node].spans[i] <= HIGH_WATER
         THEN LET new == Len(m.bufs) + 1
                  m1 == AllocBuf(m, Pad(Rd(m, m.nodes[node].child[i],
                                           m.nodes[node].spans[i]), HIGH_WATER))
              IN  CopySmall([m1 EXCEPT !.nodes[node].child[i] = Ptr(new, 0)],
                            node, fill, i + 1)
         ELSE CopySmall(m, node, fill, i + 1)

RECURSIVE IncChildren(_, _, _, _)
IncChildren(m, node, fill, i) ==
    IF i >= fill THEN m
    ELSE IncChildren([m EXCEPT !.nodes[m.nodes[node].child[i].a].refc = @ + 1],
                     node, fill, i + 1)

\* returns the machine and the node *nodeptr now points to
ensure_node_editable(m, node, level) ==
    IF m.nodes[node].refc = 1 THEN [m |-> m, node |-> node]
    ELSE LET copy == Len(m.nodes) + 1
             m1 == [m EXCEPT !.nodes = Append(@, [m.nodes[node] EXCEPT !.refc = 1])]
             fill == node_fill(m.nodes[node], 0)
             m2 == IF level = 1 THEN CopySmall(m1, node, fill, 0)
                   ELSE IncChildren(m1, node, fill, 0)
         IN  [m |-> drop_node(m2, node, level), node |-> copy]

----------------------------------------------------------------------------
(* utilities *)

\* returns the machine, the (possibly reallocated) target and *tspan
slice_insert(m, target, offset, data, len, tspan) ==
    IF tspan + len > HIGH_WATER
    THEN LET old == m.bufs[target.a].data
             newbuf == Len(m.bufs) + 1
             newblk == Len(m.blocks) + 1
             \* realloc to the exact size, then memmove and memcpy
             m1 == AllocBuf(FreeBuf(m, target),
                            SubSeq(old, 1, offset) \o data \o SubSeq(old, offset + 1, tspan))
             m2 == [m1 EXCEPT !.blocks = Append(@, [refc |-> 1, type |-> "HEAP",
                                                     data |-> newbuf, len |-> tspan + len,
                                                     next |-> m.st.blocks, live |-> TRUE]),
                              !.st.blocks = newblk]
         IN  [m |-> m2, target |-> Ptr(newbuf, 0), tspan |-> tspan + len]
    ELSE [m |-> [m EXCEPT !.bufs[target.a].data = block_insert(@, offset, data, len)],
          target |-> target, tspan |-> tspan + len]

RECURSIVE merge_loop(_, _, _, _, _)
\* both are smaller S|S: r is the slice_insert of slice i at the end of slice i-1;
\* slice i is freed and the window shifted down, i doesn't move
merge_small(r, spans, data, fill, i) ==
    merge_loop(FreeBuf(r.m, data[i]),
               MemMove([spans EXCEPT ![i-1] = r.tspan], i, i + 1, fill - (i+1)),
               MemMove([data EXCEPT ![i-1] = r.target], i, i + 1, fill - (i+1)),
               fill - 1, i)

merge_loop(m, spans, data, fill, i) ==
    IF ~(i < fill) THEN [m |-> m, spans |-> spans, data |-> data, fill |-> fill]
    ELSE IF spans[i] > HIGH_WATER THEN merge_loop(m, spans, data, fill, i + 2)
    ELSE IF spans[i-1] <= HIGH_WATER
         THEN merge_small(slice_insert(m, data[i-1], spans[i-1],
                                       Rd(m, data[i], spans[i]), spans[i], spans[i-1]),
                          spans, data, fill, i)
         ELSE merge_loop(m, spans, data, fill, i + 1)

\* a merge_slices that leaves the window as it is
merge_slices_never(m, spans, data, fill) ==
    [m |-> m, spans |-> spans, data |-> data, fill |-> fill]

\* a merge_slices that looks at the first two slices of the window last of all
merge_slices_late(m, spans, data, fill) == merge_loop(m, spans, data, fill, 2)

merge_slices(m, spans, data, fill) == merge_loop(m, spans, data, fill, 1)

\* a split_node that leaves the slots it copied in the node as well
split_node_keep(m, node, offset) ==
    LET split == Len(m.nodes) + 1
        n == m.nodes[node]
    IN  [m |-> [new_node(m) EXCEPT !.nodes[split].spans = MemCpy(@, 0, n.spans, offset, B - offset),
                                   !.nodes[split].child = MemCpy(@, 0, n.child, offset, B - offset)],
         split |-> split]

\* returns the machine and the new right node
split_node(m, node, offset) ==
    LET split == Len(m.nodes) + 1
        count == B - offset
        m1 == new_node(m)
        n == m.nodes[node]
    IN  [m |-> [m1 EXCEPT !.nodes[split].spans = MemCpy(@, 0, n.spans, offset, count),
                          !.nodes[split].child = MemCpy(@, 0, n.child, offset, count),
                          !.nodes[node] = node_clrslots(n, offset, B)],
         split |-> split]

\* a rebalance_node that steals every slot of j, whatever i has room for
rebalance_node_greedy(i, j, ifill, jfill, i_on_left) ==
    IF i_on_left
    THEN [i |-> [i EXCEPT !.spans = MemCpy(@, ifill, j.spans, 0, jfill),
                          !.child = MemCpy(@, ifill, j.child, 0, jfill)],
          j |-> node_clrslots(j, 0, jfill),
          delta |-> SumTo(j.spans, jfill)]
    ELSE [i |-> [i EXCEPT !.spans = MemCpy(MemMove(@, jfill, 0, ifill), 0, j.spans, 0, jfill),
                          !.child = MemCpy(MemMove(@, jfill, 0, ifill), 0, j.child, 0, jfill)],
          j |-> node_clrslots(j, 0, jfill),
          delta |-> SumTo(j.spans, jfill)]

\* steals slots from j into i: returns both node records and the size moved
rebalance_node(i, j, ifill, jfill, i_on_left) ==
    LET count == IF ifill + jfill <= B THEN jfill ELSE B \div 2 + (B % 2) - ifill
    IN  IF i_on_left
        THEN [i |-> [i EXCEPT !.spans = MemCpy(@, ifill, j.spans, 0, count),
                              !.child = MemCpy(@, ifill, j.child, 0, count)],
              j |-> node_clrslots([j EXCEPT !.spans = MemMove(@, 0, count, jfill - count),
                                            !.child = MemMove(@, 0, count, jfill - count)],
                                  jfill - count, jfill),
              delta |-> SumTo(j.spans, count)]
        ELSE [i |-> [i EXCEPT !.spans = MemCpy(MemMove(@, count, 0, ifill), 0,
                                               j.spans, jfill - count, count),
                              !.child = MemCpy(MemMove(@, count, 0, ifill), 0,
                                               j.child, jfill - count, count)],
              j |-> node_clrslots(j, jfill - count, jfill),
              delta |-> SumTo(j.spans, jfill) - SumTo(j.spans, jfill - count)]

\* the stores of merge_boundary after s, the slice_insert into r's first slice
merge_boundary_store(s, l, r, lfill, delta) ==
    [m |-> [FreeBuf(s.m, s.m.nodes[l].child[lfill-1])
               EXCEPT !.nodes[r].child[0] = s.target,
                      !.nodes[r].spans[0] = s.tspan,
                      !.nodes[l] = node_clrslots(@, lfill - 1, lfill)],
     delta |-> delta]

\* l and r are the leaves lptr[0] and lptr[1]; returns the machine and the bytes moved
merge_boundary(m, l, r, lfill) ==
    LET ln == m.nodes[l]
        rn == m.nodes[r]
    IN  \* merge the boundary slices if they're both small
        IF ln.spans[lfill-1] <= HIGH_WATER /\ rn.spans[0] <= HIGH_WATER
        THEN merge_boundary_store(
                 slice_insert(m, rn.child[0], 0, Rd(m, ln.child[lfill-1], ln.spans[lfill-1]),
                              ln.spans[lfill-1], rn.spans[0]),
                 l, r, lfill, ln.spans[lfill-1])
        ELSE [m |-> m, delta |-> 0]

\* removes the jth slot of root; the child node is freed whatever its refcount
node_remove(m, root, fill, j) ==
    LET c == m.nodes[root].child[j].a
        count == fill - (j + 1)
        m1 == IF m.nodes[c].live THEN [m EXCEPT !.nodes[c].live = FALSE]
              ELSE [m EXCEPT !.fault = IF @ = "none" THEN "bad free" ELSE @]
    IN  [m1 EXCEPT !.nodes[root] =
            node_clrslots([@ EXCEPT !.spans = MemMove(@, j, j + 1, count),
                                    !.child = MemMove(@, j, j + 1, count)],
                          fill - 1, fill)]


\* ceil(B/2), written B/2 + (B&1) in the code
HalfB == B \div 2 + (B % 2)

Tmp5 == 0 .. 4
ZeroSpans5 == [k \in Tmp5 |-> 0]
NullData5 == [k \in Tmp5 |-> NULL]

\* the window handed to merge_slices: the slot before i (if any), the pieces the
\* slice i was cut into, and the slot after i (if any)
FillTmp(arr, i, fill, mid, zero) ==
    LET pre == IF i > 0 THEN <<arr[i-1]>> ELSE <<>>
        post == IF i + 1 < fill THEN <<arr[i+1]>> ELSE <<>>
        all == pre \o mid \o post
    IN  [fill |-> Len(all), arr |-> [k \in Tmp5 |-> IF k < Len(all) THEN all[k+1] ELSE zero]]

----------------------------------------------------------------------------
(* insertion *)

\* the split of a full node before a slot is inserted at index i: returns the machine,
\* the node and index the slot goes to, the fill to shift, and the out-parameters
SplitForInsert(m, node, i, fill, delta, newsize, split, splitsize) ==
    IF fill = B
    THEN LET f == B \div 2 + (IF i > B \div 2 THEN 1 ELSE 0)
             s == split_node(m, node, f)
             ssz == node_sum(s.m.nodes[s.split], B - f)
         IN  IF i > B \div 2
             THEN [m |-> s.m, node |-> s.split, i |-> i - f, fill |-> f,
                   delta |-> delta - ssz - newsize, split |-> s.split,
                   splitsize |-> ssz + newsize]
             ELSE [m |-> s.m, node |-> node, i |-> i, fill |-> f,
                   delta |-> delta - ssz, split |-> s.split, splitsize |-> ssz]
    ELSE [m |-> m, node |-> node, i |-> i, fill |-> fill,
          delta |-> delta, split |-> split, splitsize |-> splitsize]

\* memmove of the slots from i one up, then the store of (span, child) at i
InsertSlot(m, node, i, fill, span, child) ==
    [m EXCEPT !.nodes[node].spans = [MemMove(@, i + 1, i, fill - i) EXCEPT ![i] = span],
              !.nodes[node].child = [MemMove(@, i + 1, i, fill - i) EXCEPT ![i] = child]]

\* the end of insert_within_slice: mg is the merged window, n1 the leaf before the
\* window is copied back, i0 the first slot of the window
insert_within_slice_store(mg, n1, tmpfill, leaf, fill, i0, newlen, right_span, split, splitsize) ==
    LET newfill == mg.fill
        delta == tmpfill - newfill
        realfill == fill - (delta - 2)
        count == fill - (i0 + (tmpfill - 2))
        m2 == IF delta <= 3 THEN mg.m ELSE Fault(mg.m, "assert")
    IN  IF realfill <= B
        THEN LET nn == [n1 EXCEPT
                          !.spans = MemCpy(MemMove(@, i0 + newfill, i0 + (tmpfill - 2), count),
                                           i0, mg.spans, 0, newfill),
                          !.child = MemCpy(MemMove(@, i0 + newfill, i0 + (tmpfill - 2), count),
                                           i0, mg.data, 0, newfill)]
             IN  [m |-> [m2 EXCEPT !.nodes[leaf] =
                            IF delta > 2 THEN node_clrslots(nn, realfill, fill) ELSE nn],
                  delta |-> newlen,
                  split |-> split,
                  \* indicate underflow
                  splitsize |-> IF realfill < HalfB THEN realfill ELSE splitsize]
        ELSE \* realfill > B: leaf split, we have at most 2 new slices
             LET Big == 0 .. (B + 1)
                 \* copy all data to temporary buffers and distribute
                 spans == MemCpy(MemCpy(MemCpy([k \in Big |-> 0], 0, n1.spans, 0, i0),
                                        i0, mg.spans, 0, newfill),
                                 i0 + newfill, n1.spans, i0 + tmpfill - 2, count)
                 blks == MemCpy(MemCpy(MemCpy([k \in Big |-> NULL], 0, n1.child, 0, i0),
                                       i0, mg.data, 0, newfill),
                                i0 + newfill, n1.child, i0 + tmpfill - 2, count)
                 right_split == Len(m2.nodes) + 1
                 oldsum == node_sum(n1, fill) + right_span
                 new_node_fill == B \div 2 + 1
                 right_fill == realfill - (B \div 2 + 1)
                 ln == node_clrslots([n1 EXCEPT !.spans = MemCpy(@, 0, spans, 0, new_node_fill),
                                                !.child = MemCpy(@, 0, blks, 0, new_node_fill)],
                                     new_node_fill, fill)
                 rn == node_clrslots([FreshNode EXCEPT
                                        !.spans = MemCpy(@, 0, spans, new_node_fill, right_fill),
                                        !.child = MemCpy(@, 0, blks, new_node_fill, right_fill)],
                                     right_fill, B)
             IN  [m |-> [new_node(m2) EXCEPT !.nodes[leaf] = ln, !.nodes[right_split] = rn],
                  delta |-> node_sum(ln, new_node_fill) - oldsum,
                  split |-> right_split,
                  splitsize |-> node_sum(rn, right_fill)]

\* the middle of insert_within_slice: m1 is the machine with slot i cut to its left
\* fragment; the window is filled and merged
insert_within_slice_merge(m1, leaf, fill, i, left, new, newlen, right, right_span, split, splitsize) ==
    LET n1 == m1.nodes[leaf]
        ts == FillTmp(n1.spans, i, fill, <<n1.spans[i], newlen, right_span>>, 0)
        td == FillTmp(n1.child, i, fill, <<left, new, right>>, NULL)
    IN  insert_within_slice_store(merge_slices(m1, ts.arr, td.arr, ts.fill), n1, ts.fill,
                                  leaf, fill, IF i > 0 THEN i - 1 ELSE i, newlen, right_span,
                                  split, splitsize)

\* handle insertion within LARGE slices; new is the buffer holding the inserted bytes.
\* returns the machine, the delta and the out-parameters *split, *splitsize
insert_within_slice(m, leaf, fill, i, off, new, newlen, split, splitsize) ==
    LET left0 == m.nodes[leaf].child[i]
        right_span == m.nodes[leaf].spans[i] - off
        small_r == right_span <= HIGH_WATER
        small_l == off <= HIGH_WATER
        \* maintain block uniqueness
        right == IF small_r THEN Ptr(Len(m.bufs) + 1, 0) ELSE Ptr(left0.a, left0.o + off)
        \* demote left fragment if necessary
        left == IF small_l THEN Ptr(Len(m.bufs) + 1 + (IF small_r THEN 1 ELSE 0), 0)
                ELSE left0
        mr == IF small_r
              THEN AllocBuf(m, Pad(Rd(m, Ptr(left0.a, left0.o + off), right_span), HIGH_WATER))
              ELSE m
        ml == IF small_l THEN AllocBuf(mr, Pad(Rd(m, left0, off), HIGH_WATER)) ELSE mr
    IN  insert_within_slice_merge(
            \* then truncate
            [ml EXCEPT !.nodes[leaf].child[i] = left, !.nodes[leaf].spans[i] = off],
            leaf, fill, i, left, new, newlen, right, right_span, split, splitsize)

\* the result of the leaf case r, with *span and the context
LeafResult(r, span, ctx) ==
    [m |-> r.m, delta |-> r.delta, span |-> span, ctx |-> ctx,
     split |-> r.split, splitsize |-> r.splitsize]

\* a store of the slice slice_insert returned that leaves the span of slot k as it was
insert_leaf_inplace_lost(s, leaf, k, len) ==
    [m |-> [s.m EXCEPT !.nodes[leaf].child[k] = s.target], delta |-> len]

\* the store of the slice slice_insert returned in slot k
insert_leaf_inplace(s, leaf, k, len) ==
    [m |-> [s.m EXCEPT !.nodes[leaf].child[k] = s.target, !.nodes[leaf].spans[k] = s.tspan],
     delta |-> len]

\* insertion on boundary [L]|[L], no merging possible: copy holds the inserted bytes
insert_leaf_boundary(s, len, copy) ==
    [m |-> InsertSlot(s.m, s.node, s.i, s.fill, len, copy),
     delta |-> s.delta, split |-> s.split, splitsize |-> s.splitsize]

\* the slow path of insert_leaf: make a modifiable copy of the data
insert_leaf_copy(m, leaf, i, pos, fill, at_bound, data, len, split, splitsize) ==
    LET copy == Ptr(Len(m.bufs) + 1, 0)
        newblk == Len(m.blocks) + 1
        ma == AllocBuf(m, IF len > HIGH_WATER THEN data ELSE Pad(data, HIGH_WATER))
        mn == [ma EXCEPT !.blocks =
                  Append(@, [refc |-> 1, type |-> "HEAP", data |-> copy.a, len |-> len,
                             next |-> m.st.blocks, live |-> TRUE])]
        mb == IF len > HIGH_WATER
              THEN \* st->blocks->next = new
                   IF m.st.blocks = 0 THEN Fault(mn, "null deref")
                   ELSE [mn EXCEPT !.blocks[m.st.blocks].next = newblk]
              ELSE ma
    IN  IF at_bound \/ pos = 0
        THEN insert_leaf_boundary(
                 \* if at_bound, we are inserting at index i+1
                 SplitForInsert(mb, leaf, IF at_bound THEN i + 1 ELSE i, fill, len, len,
                                split, splitsize),
                 len, copy)
        ELSE insert_within_slice(mb, leaf, fill, i, pos, copy, len, split, splitsize)

insert_leaf(m, leaf, pos0, span, split, splitsize, ctx) ==
    LET n == m.nodes[leaf]
        no == node_offset(n, pos0)
        i == no.i
        pos == no.key
        fill == node_fill(n, i)
        len == span
        at_bound == (pos = n.spans[i])
        data == ctx.data
        \* the slice a fast path inserts into, and the offset in it
        first == pos = 0 /\ n.spans[0] <= HIGH_WATER
        here == n.spans[i] <= HIGH_WATER
        after == at_bound /\ i < fill - 1 /\ n.spans[i+1] <= HIGH_WATER
        k == IF first THEN 0 ELSE IF here THEN i ELSE i + 1
        off == IF first THEN 0 ELSE IF here THEN pos ELSE 0
    IN  LeafResult(
            IF first \/ here \/ after
            THEN [split |-> split, splitsize |-> splitsize] @@
                 insert_leaf_inplace(slice_insert(m, n.child[k], off, data, len, n.spans[k]),
                                     leaf, k, len)
            ELSE insert_leaf_copy(m, leaf, i, pos, fill, at_bound, data, len,
                                  split, splitsize),
            span,
            \* we scan the data here for better locality
            [ctx EXCEPT !.lfs = count_lfs(data)])

----------------------------------------------------------------------------
(* deletion *)

\* the end of delete_within_slice: mg is the merged window, n the leaf before the
\* window is copied back, i0 the first slot of the window
delete_within_slice_store(mg, n, tmpfill, leaf, fill, i0) ==
    LET newfill == mg.fill
        delta == tmpfill - newfill
        realfill == fill - (delta - 1)
        \* exclude new_right
        count == fill - (i0 + (tmpfill - 1))
        nn == [n EXCEPT
                 !.spans = MemCpy(MemMove(@, i0 + newfill, i0 + (tmpfill - 1), count),
                                  i0, mg.spans, 0, newfill),
                 !.child = MemCpy(MemMove(@, i0 + newfill, i0 + (tmpfill - 1), count),
                                  i0, mg.data, 0, newfill)]
        m1 == IF delta <= 3 THEN mg.m ELSE Fault(mg.m, "assert")
    IN  IF realfill > B THEN [m |-> m1, fill |-> B + 1]
        ELSE [m |-> [m1 EXCEPT !.nodes[leaf] =
                        IF delta > 0 THEN node_clrslots(nn, realfill, fill) ELSE nn],
              fill |-> realfill]

\* returns the machine and the new fill of the leaf (B + 1: the leaf must be split)
delete_within_slice(m, leaf, fill, i, new_right_span, new_right) ==
    LET n == m.nodes[leaf]
        ts == FillTmp(n.spans, i, fill, <<n.spans[i], new_right_span>>, 0)
        td == FillTmp(n.child, i, fill, <<n.child[i], new_right>>, NULL)
    IN  delete_within_slice_store(merge_slices(m, ts.arr, td.arr, ts.fill), n, ts.fill,
                                  leaf, fill, IF i > 0 THEN i - 1 ELSE i)

RECURSIVE DeleteWhole(_, _, _, _, _, _)
\* the loop over the slots that are deleted whole: returns the machine, end, the
\* bytes left to delete and the newlines counted
DeleteWhole(m, leaf, fill, end, len, lfs) ==
    LET n == m.nodes[leaf]
    IN  IF end < fill /\ len >= n.spans[end]
        THEN DeleteWhole(\* free small blocks
                         IF n.spans[end] <= HIGH_WATER THEN FreeBuf(m, n.child[end]) ELSE m,
                         leaf, fill, end + 1, len - n.spans[end],
                         lfs + count_lfs(Rd(m, n.child[end], n.spans[end])))
        ELSE [m |-> m, end |-> end, len |-> len, lfs |-> lfs]

\* deletion within piece: overflow, the right fragment gets a slot of its own
delete_leaf_overflow(s, right_span, right) ==
    [m |-> InsertSlot(s.m, s.node, s.i, s.fill, right_span, right),
     delta |-> s.delta, split |-> s.split, splitsize |-> s.splitsize]

\* the end of a deletion inside one large slice: d is what delete_within_slice returned
delete_leaf_within(d, leaf, i, fill, delta, right_span, right, split, splitsize) ==
    IF d.fill > B
    THEN delete_leaf_overflow(
             \* fill == B, we must split
             SplitForInsert(d.m, leaf, i + 1, fill, delta, right_span, split, splitsize),
             right_span, right)
    ELSE [m |-> d.m, delta |-> delta, split |-> split,
          \* underflow
          splitsize |-> IF d.fill < HalfB THEN d.fill ELSE splitsize]

\* the end of a deletion over slice ends: mg is the merged window, which is copied in,
\* then the old entries are moved down
delete_leaf_store(mg, np, sp1, ch1, start, tmpfill, fill1, oldfill, leaf, len1, lfs1, span, ctx, split, splitsize) ==
    LET newfill == mg.fill
        fill2 == fill1 - (tmpfill - newfill)
        nn == node_clrslots(
                  [np EXCEPT
                     !.spans = MemMove(MemCpy(sp1, start, mg.spans, 0, newfill),
                                       start + newfill, start + tmpfill,
                                       oldfill - (start + tmpfill)),
                     !.child = MemMove(MemCpy(ch1, start, mg.data, 0, newfill),
                                       start + newfill, start + tmpfill,
                                       oldfill - (start + tmpfill))],
                  fill2, oldfill)
    IN  [m |-> [mg.m EXCEPT !.nodes[leaf] = nn],
         \* |requested-deleted| = |change|
         delta |-> span + len1, span |-> span + len1,
         ctx |-> [ctx EXCEPT !.lfs = lfs1],
         split |-> split,
         \* ULONG_MAX indicates 0 size
         splitsize |-> IF fill2 < HalfB
                       THEN (IF fill2 # 0 THEN fill2 ELSE ULONG_MAX)
                       ELSE splitsize]

\* the slots start0 .. end-1 are gone: the rest is moved down and the window around
\* start is merged
delete_leaf_merge(mp, leaf, fill, start0, end, len1, lfs1, span, ctx, split, splitsize) ==
    LET np == mp.nodes[leaf]
        sp1 == MemMove(np.spans, start0, end, fill - end)
        ch1 == MemMove(np.child, start0, end, fill - end)
        fill1 == start0 + fill - end
        \* n.b. start may be truncated. Thus use start - 2
        start == MAX(0, start0 - 2)
        tmpfill == MIN(fill1 - start, 4)
    IN  delete_leaf_store(merge_slices(mp, MemCpy(ZeroSpans5, 0, sp1, start, tmpfill),
                                       MemCpy(NullData5, 0, ch1, start, tmpfill), tmpfill),
                          np, sp1, ch1, start, tmpfill, fill1, fill, leaf,
                          len1, lfs1, span, ctx, split, splitsize)

\* w is the state after the loop over the whole slots: delete prefix of end
delete_leaf_prefix(w, leaf, fill, start0, span, ctx, split, splitsize) ==
    LET end == w.end
        ne == w.m.nodes[leaf]
        nspan == ne.spans[end] - w.len
    IN  delete_leaf_merge(
            IF end < fill
            THEN IF ne.spans[end] <= HIGH_WATER
                 THEN [w.m EXCEPT !.bufs[ne.child[end].a].data = block_delete(@, 0, w.len),
                                  !.nodes[leaf].spans[end] = nspan]
                 ELSE IF nspan <= HIGH_WATER
                      THEN \* was large, now small: memcpy(new, leaf->child[end], span)
                           [AllocBuf(w.m, Pad(Rd(w.m, ne.child[end], nspan), HIGH_WATER))
                              EXCEPT !.nodes[leaf].spans[end] = nspan,
                                     !.nodes[leaf].child[end] = Ptr(Len(w.m.bufs) + 1, 0)]
                      ELSE [w.m EXCEPT !.nodes[leaf].spans[end] = nspan,
                                       !.nodes[leaf].child[end] = Ptr(@.a, @.o + w.len)]
            ELSE w.m,
            leaf, fill, start0, end,
            IF end < fill THEN 0 ELSE w.len,
            IF end < fill THEN w.lfs + count_lfs(Rd(w.m, ne.child[end], w.len)) ELSE w.lfs,
            span, ctx, split, splitsize)

\* deletion inside one slice: pos > 0 and pos + len < leaf->spans[i]
delete_leaf_inside(m, leaf, i, fill, pos, len, split, splitsize) ==
    LET oldspan == m.nodes[leaf].spans[i]
        olddata == m.nodes[leaf].child[i]
        right_span == oldspan - pos - len
        small_r == right_span <= HIGH_WATER
        small_l == pos <= HIGH_WATER
        right == IF small_r THEN Ptr(Len(m.bufs) + 1, 0)
                 ELSE Ptr(olddata.a, olddata.o + pos + len)
        new == Ptr(Len(m.bufs) + 1 + (IF small_r THEN 1 ELSE 0), 0)
        \* copy data for right fragment
        mr == IF small_r
              THEN AllocBuf(m, Pad(Rd(m, Ptr(olddata.a, olddata.o + pos + len), right_span),
                                   HIGH_WATER))
              ELSE m
        \* truncation might have resulted in a small block
        ml == IF small_l THEN AllocBuf(mr, Pad(Rd(m, olddata, pos), HIGH_WATER)) ELSE mr
    IN  IF oldspan <= HIGH_WATER
        THEN \* inplace deletion, no splitting/underflowing here
             [m |-> [m EXCEPT !.bufs[olddata.a].data = block_delete(@, pos, len),
                              !.nodes[leaf].spans[i] = @ - len],
              delta |-> 0 - len, split |-> split, splitsize |-> splitsize]
        ELSE delete_leaf_within(
                 delete_within_slice(
                     [ml EXCEPT !.nodes[leaf].spans[i] = pos,   \* truncate slice
                                !.nodes[leaf].child[i] = IF small_l THEN new ELSE @],
                     leaf, fill, i, right_span, right),
                 leaf, i, fill, 0 - len, right_span, right, split, splitsize)

\* deletion up to or over the end of slice i: pos + len >= leaf->spans[i]
delete_leaf_across(m, leaf, i, fill, pos, len, span, ctx, split, splitsize) ==
    LET n == m.nodes[leaf]
        si == n.child[i]
        \* if the span was large, consider reallocating after truncation
        ma == IF n.spans[i] > HIGH_WATER /\ pos <= HIGH_WATER
              THEN [AllocBuf(m, Pad(Rd(m, si, pos), HIGH_WATER))
                      EXCEPT !.nodes[leaf].child[i] = Ptr(Len(m.bufs) + 1, 0)]
              ELSE m
    IN  IF pos > 0
        THEN delete_leaf_prefix(
                 DeleteWhole([ma EXCEPT !.nodes[leaf].spans[i] = pos],   \* truncate si
                             leaf, fill, i + 1,
                             \* no. deleted characters remaining
                             len - (n.spans[i] - pos),
                             count_lfs(Rd(m, Ptr(si.a, si.o + pos), n.spans[i] - pos))),
                 leaf, fill, i + 1, span, ctx, split, splitsize)
        ELSE delete_leaf_prefix(DeleteWhole(m, leaf, fill, i, len, 0),
                                leaf, fill, i, span, ctx, split, splitsize)

\* span is negative to indicate deltas for partial deletions
delete_leaf(m, leaf, pos0, span, split, splitsize, ctx) ==
    LET n == m.nodes[leaf]
        no == node_offset(n, pos0)
        i == no.i
        fill == node_fill(n, i)
        \* we search for pos + 1 as we assume our next chunk is in this leaf
        pos == no.key - 1
        len == 0 - span
    IN  IF pos > 0 /\ pos + len < n.spans[i]
        THEN LeafResult(delete_leaf_inside(m, leaf, i, fill, pos, len, split, splitsize),
                        span,
                        [ctx EXCEPT !.lfs = count_lfs(Rd(m, Ptr(n.child[i].a,
                                                               n.child[i].o + pos), len))])
        ELSE delete_leaf_across(m, leaf, i, fill, pos, len, span, ctx, split, splitsize)

----------------------------------------------------------------------------
(* the recursion *)

RECURSIVE edit_recurse(_, _, _, _, _, _, _, _, _)

\* what a level above the leaves returns: r is what the level below returned
NodeResult(m, r, delta, split, splitsize) ==
    [m |-> m, delta |-> delta, span |-> r.span, ctx |-> r.ctx,
     split |-> split, splitsize |-> splitsize]

\* j was merged into oblivion: it is removed and the underflow propagated up
edit_recurse_remove(m, r, root, j, fill, split, splitsize) ==
    IF m.nodes[root].spans[j] = 0
    THEN NodeResult(node_remove(m, root, fill, j), r, r.span, split,
                    IF fill - 1 < HalfB THEN fill - 1 ELSE splitsize)
    ELSE NodeResult(m, r, r.span, split, splitsize)

\* root->spans[i] += shifted; root->spans[j] -= shifted
edit_recurse_shift(m, r, root, i, j, fill, shifted, split, splitsize) ==
    edit_recurse_remove([m EXCEPT !.nodes[root].spans[i] = @ + shifted,
                                  !.nodes[root].spans[j] = @ - shifted],
                        r, root, j, fill, split, splitsize)

\* transfer some slots from j to i: mb is what merge_boundary returned
edit_recurse_rebalance(mb, ci, cj, jfill0, r, level, root, i, j, fill, split, splitsize) ==
    LET merged == level - 1 = 1 /\ mb.delta # 0
        rb == rebalance_node(mb.m.nodes[ci], mb.m.nodes[cj],
                             IF merged /\ i < j THEN r.splitsize - 1 ELSE r.splitsize,
                             IF merged /\ ~(i < j) THEN jfill0 - 1 ELSE jfill0,
                             i < j)
    IN  edit_recurse_shift([mb.m EXCEPT !.nodes[ci] = rb.i, !.nodes[cj] = rb.j],
                           r, root, i, j, fill,
                           (IF i < j THEN 0 - mb.delta ELSE mb.delta) + rb.delta,
                           split, splitsize)

\* the sibling j is editable (ej): above the leaves' parents nothing is merged
edit_recurse_sibling(ej, jfill0, r, level, root, i, j, fill, split, splitsize) ==
    LET m3 == [ej.m EXCEPT !.nodes[root].child[j] = Ptr(ej.node, 0)]
        ci == ej.m.nodes[root].child[i].a
        cj == ej.node
    IN  edit_recurse_rebalance(
            IF level - 1 = 1
            THEN IF i < j THEN merge_boundary(m3, ci, cj, r.splitsize)
                 ELSE merge_boundary(m3, cj, ci, jfill0)
            ELSE [m |-> m3, delta |-> 0],
            ci, cj, jfill0, r, level, root, i, j, fill, split, splitsize)

\* children[i] underflowed
edit_recurse_underflow(m, r, level, root, i, j, split, splitsize) ==
    IF r.splitsize = ULONG_MAX
    THEN \* mark j = i as deleted
         edit_recurse_shift([m EXCEPT !.nodes[root].spans[i] = 0], r, root, i, i,
                            node_fill(m.nodes[root], i), 0, split, splitsize)
    ELSE edit_recurse_sibling(ensure_node_editable(m, m.nodes[root].child[j].a, level - 1),
                              node_fill(m.nodes[m.nodes[root].child[j].a], 0),
                              r, level, root, i, j, node_fill(m.nodes[root], i),
                              split, splitsize)

\* overflow: childsplit is inserted at the slot s names
edit_recurse_overflow(s, r) ==
    NodeResult(InsertSlot(s.m, s.node, s.i, s.fill, r.splitsize, Ptr(r.split, 0)),
               r, s.delta, s.split, s.splitsize)

\* the delta r of the level below is applied upwards, then its overflow or underflow
edit_recurse_apply(r, level, root, i, split, splitsize) ==
    LET m2 == [r.m EXCEPT !.nodes[root].spans[i] = @ + r.delta]
    IN  IF r.splitsize = 0 THEN NodeResult(m2, r, r.span, split, splitsize)
        ELSE IF r.split # 0
        THEN \* attempt to insert childsplit at i+1
             edit_recurse_overflow(
                 SplitForInsert(m2, root, i + 1, node_fill(m2.nodes[root], i + 1),
                                r.span, r.splitsize, split, splitsize),
                 r)
        ELSE edit_recurse_underflow(m2, r, level, root, i, IF i > 0 THEN i - 1 ELSE i + 1,
                                    split, splitsize)

\* the descent into child i, which e made editable
edit_recurse_descend(e, level, root, i, key, span, base_case, ctx, split, splitsize) ==
    edit_recurse_apply(
        edit_recurse([e.m EXCEPT !.nodes[root].child[i] = Ptr(e.node, 0)],
                     level - 1, e.node, key, span, base_case, ctx, 0, 0),
        level, root, i, split, splitsize)

\* returns the machine, the delta, and the out-parameters *span, ctx, *split, *splitsize
edit_recurse(m, level, root, pos0, span, base_case, ctx, split, splitsize) ==
    IF pos0 > node_sum(m.nodes[root], node_fill(m.nodes[root], 0))
    THEN \* the key is past the live spans of the node: node_offset runs into the dead
         \* slots and behind the arrays, what the code does then is undefined
         [m |-> Fault(m, "out of bounds"), delta |-> 0, span |-> span, ctx |-> ctx,
          split |-> split, splitsize |-> splitsize]
    ELSE IF level = 1
    THEN IF base_case = "insert" THEN insert_leaf(m, root, pos0, span, split, splitsize, ctx)
         ELSE delete_leaf(m, root, pos0, span, split, splitsize, ctx)
    ELSE \* level > 1: node node recursion
         LET no == node_offset(m.nodes[root], pos0)
         IN  edit_recurse_descend(
                 ensure_node_editable(m, m.nodes[root].child[no.i].a, level - 1),
                 level, root, no.i, no.key, span, base_case, ctx, split, splitsize)

----------------------------------------------------------------------------
(* simple *)

st_depth(st) == st.levels - 1

st_size(m) == node_sum(m.nodes[m.st.root], node_fill(m.nodes[m.st.root], 0))

RECURSIVE check_recurse(_, _, _, _)
RECURSIVE CheckChildren(_, _, _, _, _, _)
CheckChildren(m, root, height, level, fill, i) ==
    IF i >= fill THEN TRUE
    ELSE /\ check_recurse(m, m.nodes[root].child[i].a, height, level - 1)
         /\ node_sum(m.nodes[m.nodes[root].child[i].a],
                     node_fill(m.nodes[m.nodes[root].child[i].a], 0))
                = m.nodes[root].spans[i]
         /\ CheckChildren(m, root, height, level, fill, i + 1)

check_recurse(m, root, height, level) ==
    LET n == m.nodes[root]
        fill == node_fill(n, 0)
    IN  IF level = 1
        THEN /\ (height = 1 \/ fill >= HalfB)
             /\ \A i \in 0 .. (fill - 1) :
                    /\ n.spans[i] # 0
                    /\ ~(i > 0 /\ n.spans[i-1] <= HIGH_WATER /\ n.spans[i] <= HIGH_WATER)
        ELSE /\ fill >= (IF level = height THEN 2 ELSE HalfB)
             /\ CheckChildren(m, root, height, level, fill, 0)

st_check_invariants(m) == check_recurse(m, m.st.root, m.st.levels, m.st.levels)

\* handle root split: a new root over the old root and the split
RootSplit(m, split, splitsize) ==
    IF split # 0
    THEN [new_node(m) EXCEPT !.nodes[Len(m.nodes) + 1].spans[0] = st_size(m),
                             \* we only switched the pointer
                             !.nodes[Len(m.nodes) + 1].child[0] = Ptr(m.st.root, 0),
                             !.nodes[Len(m.nodes) + 1].spans[1] = splitsize,
                             !.nodes[Len(m.nodes) + 1].child[1] = Ptr(split, 0),
                             !.st.root = Len(m.nodes) + 1,
                             !.st.levels = @ + 1]
    ELSE m

\* the root underflow and the root split that end st_insert and each round of st_delete
RootFix(m, split, splitsize) ==
    RootSplit(IF m.st.levels > 1 /\ node_fill(m.nodes[m.st.root], 0) = 1
              THEN \* handle root underflow
                   [m EXCEPT !.st.root = m.nodes[m.st.root].child[0].a,
                             !.st.levels = @ - 1]
              ELSE m,
              split, splitsize)

\* r is what edit_recurse returned for the insertion
st_insert_root(r) == [m |-> RootFix(r.m, r.split, r.splitsize), ret |-> r.ctx.lfs]

\* e is the editable root
st_insert_edit(e, pos, data, len) ==
    st_insert_root(edit_recurse([e.m EXCEPT !.st.root = e.node], e.m.st.levels, e.node,
                                pos, len, "insert", [data |-> data, lfs |-> 0], 0, 0))

\* returns the machine and the result of the call
st_insert(m, pos, data, len) ==
    IF len = 0 THEN [m |-> m, ret |-> 0]
    ELSE st_insert_edit(ensure_node_editable(m, m.st.root, m.st.levels), pos, data, len)

RECURSIVE st_delete_loop(_, _, _, _, _, _)

\* the end of a round: assert(st_check_invariants(st)) and while(len > 0)
st_delete_check(m, r, pos, len, fuel) ==
    IF ~st_check_invariants(m) THEN [m |-> Fault(m, "assert"), ret |-> r.ctx.lfs]
    ELSE IF len < 0 THEN [m |-> Fault(m, "wrap"), ret |-> r.ctx.lfs]
    ELSE IF len > 0
         THEN IF fuel = 0 THEN [m |-> Fault(m, "loop"), ret |-> r.ctx.lfs]
              ELSE st_delete_loop(m, pos, len, r.ctx.lfs, r.split, fuel - 1)
         ELSE [m |-> m, ret |-> r.ctx.lfs]

\* a round that does not take the bytes it deleted off len
st_delete_round_stuck(r, pos, len, fuel) ==
    IF r.m.fault # "none" THEN [m |-> r.m, ret |-> r.ctx.lfs]
    ELSE st_delete_check(RootFix(r.m, r.split, r.splitsize), r, pos, len, fuel)

\* r is what edit_recurse returned for this round; len += remaining
st_delete_round(r, pos, len, fuel) ==
    IF r.m.fault # "none" THEN [m |-> r.m, ret |-> r.ctx.lfs]
    ELSE st_delete_check(RootFix(r.m, r.split, r.splitsize), r, pos, len + r.span, fuel)

\* the do-while loop of st_delete; split is not reset between the rounds
st_delete_loop(m, pos, len, lfs, split, fuel) ==
    st_delete_round(edit_recurse(m, m.st.levels, m.st.root, pos + 1, 0 - len, "delete",
                                 [data |-> <<>>, lfs |-> lfs], split, 0),
                    pos, len, fuel)

\* e is the editable root: we only need to ensure root uniqueness once
st_delete_edit(e, pos, len) ==
    st_delete_loop([e.m EXCEPT !.st.root = e.node], pos, len, 0, 0, len)

\* an st_delete that makes the root editable before it looks at len
st_delete_eager(m, pos, len0) ==
    IF MIN(len0, st_size(m) - pos) = 0
    THEN [m |-> [ensure_node_editable(m, m.st.root, m.st.levels).m
                    EXCEPT !.st.root = ensure_node_editable(m, m.st.root, m.st.levels).node],
          ret |-> 0]
    ELSE st_delete_edit(ensure_node_editable(m, m.st.root, m.st.levels), pos,
                        MIN(len0, st_size(m) - pos))

\* an st_delete that removes one byte more than it was asked to
st_delete_one_more(m, pos, len0) ==
    IF MIN(len0 + 1, st_size(m) - pos) = 0 THEN [m |-> m, ret |-> 0]
    ELSE st_delete_edit(ensure_node_editable(m, m.st.root, m.st.levels), pos,
                        MIN(len0 + 1, st_size(m) - pos))

st_delete(m, pos, len0) ==
    IF MIN(len0, st_size(m) - pos) = 0 THEN [m |-> m, ret |-> 0]
    ELSE st_delete_edit(ensure_node_editable(m, m.st.root, m.st.levels), pos,
                        MIN(len0, st_size(m) - pos))

\* st_new: a single empty leaf and no block
st_new(m) ==
    [new_node(m) EXCEPT !.st = [root |-> Len(m.nodes) + 1, blocks |-> 0, levels |-> 1]]

\* st_new_from_file on a file that opens and reads in full: one slice over one block
st_new_from_file(m, file) ==
    LET len == Len(file)
        data == Len(m.bufs) + 1
        init == Len(m.blocks) + 1
        leaf == Len(m.nodes) + 1
    IN  IF len = 0 THEN st_new(m)   \* mmap cannot handle 0-length mappings
        ELSE [m EXCEPT
                !.bufs = Append(@, [data |-> IF len <= HIGH_WATER
                                             THEN Pad(file, HIGH_WATER) ELSE file,
                                    live |-> TRUE]),
                !.blocks = Append(@, [refc |-> 1,
                                      type |-> IF len <= HIGH_WATER THEN "HEAP" ELSE "MMAP",
                                      data |-> data, len |-> len, next |-> 0,
                                      live |-> TRUE]),
                !.nodes = Append(@, [FreshNode EXCEPT !.spans[0] = len,
                                                      !.child[0] = Ptr(data, 0)]),
                !.st = [root |-> leaf, blocks |-> init, levels |-> 1]]

\* st_new_from_file with the system calls it makes: open returns fd (-1 when it
\* fails), read returns got, mmap succeeds or not (it cannot on a bad descriptor).
\* Returns the machine, what the call returns and the descriptors left open
st_new_from_file_env(m, file, fd, got, mapped) ==
    LET \* lseek on a bad descriptor returns -1, which len holds as a size_t
        len == IF fd = -1 THEN ULONG_MAX ELSE Len(file)
    IN  IF fd = 0 THEN [m |-> m, ret |-> "NULL", fds |-> {fd}]
        ELSE IF len = 0 THEN [m |-> st_new(m), ret |-> "st", fds |-> {fd}]
        ELSE IF len <= HIGH_WATER
        THEN IF got # len
             THEN [m |-> FreeBuf(AllocBuf(m, Pad(SubSeq(file, 1, got), HIGH_WATER)),
                                 Ptr(Len(m.bufs) + 1, 0)),
                   ret |-> "NULL", fds |-> {fd}]
             ELSE [m |-> st_new_from_file(m, file), ret |-> "st", fds |-> {fd}]
        ELSE \* mmap, then close(fd)
             IF fd = -1 \/ ~mapped THEN [m |-> m, ret |-> "NULL", fds |-> {}]
             ELSE [m |-> st_new_from_file(m, file), ret |-> "st", fds |-> {}]

\* st_free: the tree and the blocks are dropped; free(st) leaves no handle
st_free(m) ==
    [(IF m.st.blocks # 0
      THEN drop_block(drop_node(m, m.st.root, m.st.levels), m.st.blocks)
      ELSE drop_node(m, m.st.root, m.st.levels))
        EXCEPT !.st = [root |-> 0, blocks |-> 0, levels |-> 0]]

\* returns the machine (m.st is still the source) and the new handle
st_clone(m) ==
    [m |-> IF m.st.blocks = 0
           THEN Fault([m EXCEPT !.nodes[m.st.root].refc = @ + 1], "null deref")
           ELSE [m EXCEPT !.nodes[m.st.root].refc = @ + 1,
                          !.blocks[m.st.blocks].refc = @ + 1],
     clone |-> m.st]

\* the byte that ends a C string
NUL == "NUL"

\* a read of n bytes at p is defined only inside a live buffer
Readable(m, p, n) ==
    /\ p.a \in 1 .. Len(m.bufs)
    /\ m.bufs[p.a].live
    /\ p.o >= 0 /\ n >= 0
    /\ p.o + n <= Len(m.bufs[p.a].data)

\* the bytes of a slice; what a read through a dangling pointer gives is undefined
SliceBytes(m, p, n) == IF Readable(m, p, n) THEN Rd(m, p, n) ELSE <<UNINIT>>

RECURSIVE UpToNul(_)
\* what printf's %.*s writes of the bytes s: it stops at the first NUL
UpToNul(s) ==
    IF s = <<>> \/ Head(s) = NUL THEN <<>> ELSE <<Head(s)>> \o UpToNul(Tail(s))

RECURSIVE LeafOut(_, _, _, _)
\* the fprintf loop over the slots of a leaf
LeafOut(m, n, fill, i) ==
    IF i >= fill THEN <<>>
    ELSE UpToNul(SliceBytes(m, n.child[i], n.spans[i])) \o LeafOut(m, n, fill, i + 1)

RECURSIVE DumpQueue(_, _)
\* st_dump: the queue is served breadth first, leaves print their live slices
DumpQueue(m, q) ==
    IF q = <<>> THEN <<>>
    ELSE IF Head(q).level > 1
         THEN DumpQueue(m, Tail(q) \o
                  [k \in 1 .. node_fill(m.nodes[Head(q).node], 0) |->
                      [level |-> Head(q).level - 1,
                       node |-> m.nodes[Head(q).node].child[k-1].a]])
         ELSE LeafOut(m, m.nodes[Head(q).node], node_fill(m.nodes[Head(q).node], 0), 0)
                  \o DumpQueue(m, Tail(q))

st_dump(m) == DumpQueue(m, <<[level |-> m.st.levels, node |-> m.st.root]>>)

----------------------------------------------------------------------------
(* iterator *)

\* size_t arithmetic wraps
Wrap(x) == x % (ULONG_MAX + 1)

\* a read of spans[i] or child[i]: an index past the array is an out-of-bounds read,
\* which yields whatever lies behind the array (g)
At(arr, i, g) == IF i \in DOMAIN arr THEN arr[i] ELSE g

RECURSIVE iter_find(_, _, _)
\* while(pos && pos >= node->spans[i]) pos -= node->spans[i++];
iter_find(spans, i, pos) ==
    IF i \in DOMAIN spans /\ pos # 0 /\ pos >= spans[i]
    THEN iter_find(spans, i + 1, pos - spans[i])
    ELSE [i |-> i, pos |-> pos]

\* the leaf part of st_iter_to: f is the slot found in the leaf
st_iter_to_leaf(m, it, leaf, f, size, off_end) ==
    [it EXCEPT !.leaf = leaf,
               !.node_offset = f.i,
               !.wild = @ \/ f.i \notin Slots,
               !.off = IF size > 0 /\ off_end THEN f.pos + 1 ELSE f.pos,
               \* we searched for pos - 1
               !.data = IF size > 0
                        THEN Ptr(At(m.nodes[leaf].child, f.i, NULL).a,
                                 At(m.nodes[leaf].child, f.i, NULL).o + f.pos
                                     + (IF off_end THEN 1 ELSE 0))
                        ELSE @]

RECURSIVE st_iter_to_level(_, _, _, _, _, _, _)
\* the descent of st_iter_to: level 2 goes at stack[0], etc.
st_iter_to_step(m, it, node, level, f, size, off_end) ==
    st_iter_to_level(m,
                     IF level - 2 < STACKSIZE
                     THEN [it EXCEPT !.stack[level - 2] = [node |-> node, idx |-> f.i]]
                     ELSE it,
                     At(m.nodes[node].child, f.i, NULL).a, level - 1, f.pos, size, off_end)

st_iter_to_level(m, it, node, level, pos, size, off_end) ==
    IF node = 0 THEN [it EXCEPT !.wild = TRUE]
    ELSE IF level > 1
         THEN st_iter_to_step(m, it, node, level, iter_find(m.nodes[node].spans, 0, pos),
                              size, off_end)
         ELSE st_iter_to_leaf(m, it, node, iter_find(m.nodes[node].spans, 0, pos),
                              size, off_end)

st_iter_to(m, it, pos) ==
    st_iter_to_level(m, [it EXCEPT !.pos = pos], m.st.root, m.st.levels,
                     \* TODO having 2 exceptions is quite ugly
                     IF pos > 0 /\ pos = st_size(m) THEN pos - 1 ELSE pos,
                     st_size(m), pos = st_size(m))

\* what malloc returns for the iterator: nothing is initialised; g is the pointer
\* that happens to lie in it->data
FreshIter(h, g) ==
    [st |-> h, data |-> g, off |-> 0, leaf |-> 0, node_offset |-> 0,
     stack |-> [k \in 0 .. (STACKSIZE - 1) |-> [node |-> 0, idx |-> 0]],
     pos |-> 0, wild |-> FALSE]

st_iter_new(m, h, pos, g) == st_iter_to(m, FreshIter(h, g), pos)

iter_stacksize(m) == MIN(m.st.levels - 1, STACKSIZE)

st_iter_pos(it) == it.pos

iter_off_end(m, it) == it.off = At(m.nodes[it.leaf].spans, it.node_offset, 0)

RECURSIVE iter_up(_, _, _)
\* traverse upwards until we find a level with a next slot
iter_up(m, it, si) ==
    IF si < iter_stacksize(m)
       /\ ~( it.stack[si].idx < B - 1
             /\ m.nodes[it.stack[si].node].spans[it.stack[si].idx + 1] # ULONG_MAX )
    THEN iter_up(m, it, si + 1)
    ELSE si

RECURSIVE iter_down(_, _, _)
\* while(--si > 0): the levels below si restart at their first slot
iter_down(m, stack, si) ==
    IF si - 1 > 0
    THEN iter_down(m, [stack EXCEPT ![si - 1] =
                          [node |-> m.nodes[stack[si].node].child[0].a, idx |-> 0]],
                   si - 1)
    ELSE stack

\* the stack was sufficient: stack is the stack after the descent
st_iter_next_leaf(m, it, stack) ==
    [it |-> [it EXCEPT !.stack = stack,
                       !.leaf = m.nodes[stack[0].node].child[stack[0].idx].a,
                       !.node_offset = 0,
                       !.off = 0,
                       !.data = m.nodes[m.nodes[stack[0].node].child[stack[0].idx].a].child[0]],
     ret |-> TRUE]

\* if the stack was insufficient, search from the root: it is the iterator found
st_iter_next_scan(m, it) == [it |-> it, ret |-> ~it.wild /\ ~iter_off_end(m, it)]

\* si is the level the upwards traversal stopped at
st_iter_next_up(m, it, si) ==
    IF si # iter_stacksize(m)
    THEN st_iter_next_leaf(m, it,
                           iter_down(m, [it.stack EXCEPT ![si].idx = @ + 1], si))
    ELSE st_iter_next_scan(m, st_iter_to(m, it, it.pos))

\* returns the iterator and the result; it is the iterator with pos advanced
st_iter_next_chunk_from(m, it, i, leaf) ==
    \* fast path: same leaf
    IF i < B - 1 /\ At(m.nodes[leaf].spans, i + 1, ULONG_MAX) # ULONG_MAX
    THEN [it |-> [it EXCEPT !.node_offset = i + 1, !.off = 0,
                            !.data = m.nodes[leaf].child[i + 1]],
          ret |-> TRUE]
    ELSE st_iter_next_up(m, it, iter_up(m, it, 0))

st_iter_next_chunk(m, it) ==
    st_iter_next_chunk_from(
        m,
        [it EXCEPT !.pos = Wrap(@ + At(m.nodes[it.leaf].spans, it.node_offset, 0) - it.off)],
        it.node_offset, it.leaf)

\* the chunk st_iter_chunk returns: its length and where it starts
st_iter_chunk(m, it) ==
    [len |-> At(m.nodes[it.leaf].spans, it.node_offset, 0),
     ptr |-> Ptr(it.data.a, it.data.o - it.off)]

\* -1 off the end, else the byte at the cursor; a read through a pointer that points
\* into no live buffer is undefined
st_iter_byte(m, it) ==
    IF iter_off_end(m, it) THEN [ret |-> -1, defined |-> TRUE]
    ELSE IF Readable(m, it.data, 1)
         THEN [ret |-> m.bufs[it.data.a].data[it.data.o + 1], defined |-> TRUE]
         ELSE [ret |-> UNINIT, defined |-> FALSE]

----------------------------------------------------------------------------
(* the same edits on a plain byte string *)

StrInsert(s, pos, data) == SubSeq(s, 1, pos) \o data \o SubSeq(s, pos + 1, Len(s))

StrDelete(s, pos, len) == SubSeq(s, 1, pos) \o SubSeq(s, pos + len + 1, Len(s))

----------------------------------------------------------------------------
(* what a rope holds *)

RECURSIVE LeafBytes(_, _, _, _)
LeafBytes(m, n, fill, i) ==
    IF i >= fill THEN <<>>
    ELSE SliceBytes(m, n.child[i], n.spans[i]) \o LeafBytes(m, n, fill, i + 1)

RECURSIVE TreeBytes(_, _, _)
RECURSIVE ChildrenBytes(_, _, _, _, _)
ChildrenBytes(m, node, level, fill, i) ==
    IF i >= fill THEN <<>>
    ELSE TreeBytes(m, m.nodes[node].child[i].a, level - 1)
             \o ChildrenBytes(m, node, level, fill, i + 1)

\* the in-order concatenation of the live leaf slices below node
TreeBytes(m, node, level) ==
    IF level <= 1 THEN LeafBytes(m, m.nodes[node], node_fill(m.nodes[node], 0), 0)
    ELSE ChildrenBytes(m, node, level, node_fill(m.nodes[node], 0), 0)

RECURSIVE TreeLeaves(_, _, _)
RECURSIVE ChildrenLeaves(_, _, _, _, _)
ChildrenLeaves(m, node, level, fill, i) ==
    IF i >= fill THEN <<>>
    ELSE TreeLeaves(m, m.nodes[node].child[i].a, level - 1)
             \o ChildrenLeaves(m, node, level, fill, i + 1)

\* the leaves below node, in order
TreeLeaves(m, node, level) ==
    IF level <= 1 THEN <<node>>
    ELSE ChildrenLeaves(m, node, level, node_fill(m.nodes[node], 0), 0)

RECURSIVE TreeNodes(_, _, _)
\* the nodes of the tree below node (node included), each with its level
TreeNodes(m, node, level) ==
    {[node |-> node, level |-> level]} \cup
    (IF level <= 1 THEN {}
     ELSE UNION { TreeNodes(m, m.nodes[node].child[i].a, level - 1) :
                     i \in 0 .. (node_fill(m.nodes[node], 0) - 1) })

----------------------------------------------------------------------------
(* the state machine *)

\* the number of edits explored from the first rope of a behaviour
MaxOps == 2
\* the number of handles (the first one and its clones)
MaxHandles == 2
\* the number of chunks a walk over an iterator reads before iter is cut off
MaxWalk == 12

\* the byte strings handed to st_insert: none, one byte, HIGH_WATER bytes, more than
\* HIGH_WATER
Datas == { <<>>, <<LF>>, <<"x", "y">>, <<"X", LF, "Z">> }

\* a file of more than HIGH_WATER bytes
File8 == <<"a", "b", LF, "c", "d", "e", LF, "f">>
\* the file of the second scenario of the specification
File10 == <<"a", "b", "c", "d", "e", "f", "g", "h", "i", "j">>

\* the calls of a script
Ins(h, pos, data) == [op |-> "insert", h |-> h, pos |-> pos, data |-> data, len |-> Len(data)]
Del(h, pos, len) == [op |-> "delete", h |-> h, pos |-> pos, data |-> <<>>, len |-> len]
Cln(h) == [op |-> "clone", h |-> h, pos |-> 0, data |-> <<>>, len |-> 0]

Data3 == <<"X", LF, "Z">>

\* a rope of two levels: leaves of 2 and 3 slices, "aX\nZ" and "b\nX\nZcde\nf"
TwoLevels == <<Ins(1, 3, Data3), Ins(1, 1, Data3)>>
\* a rope of three levels: four leaves of 2 slices
ThreeLevels == TwoLevels \o <<Ins(1, 9, Data3), Ins(1, 13, Data3)>>

\* how the ropes of a behaviour are made: st_new_from_file on file, then the calls
\* of script; free is the number of edits explored from there.  The last one clones
\* the rope of two levels and deletes the whole first leaf and five bytes more from it
Scenarios ==
    { [file |-> <<>>, script |-> <<>>, free |-> 2],
      [file |-> <<"a", LF>>, script |-> <<>>, free |-> 2],
      [file |-> File8, script |-> <<>>, free |-> 2],
      [file |-> File10, script |-> <<>>, free |-> 1],
      [file |-> File8, script |-> TwoLevels, free |-> 1],
      [file |-> File8, script |-> ThreeLevels, free |-> 1],
      [file |-> File8, script |-> TwoLevels \o <<Cln(1), Del(1, 0, 9)>>, free |-> 1] }

EmptyMachine ==
    [nodes |-> <<>>, bufs |-> <<>>, blocks |-> <<>>,
     st |-> [root |-> 0, blocks |-> 0, levels |-> 0], fault |-> "none"]

\* the heap of w as a call on handle h sees it, and the heap and the handle after it
Of(w, h) ==
    [nodes |-> w.nodes, bufs |-> w.bufs, blocks |-> w.blocks, st |-> w.sts[h],
     fault |-> w.fault]
After(w, h, m) ==
    [nodes |-> m.nodes, bufs |-> m.bufs, blocks |-> m.blocks,
     sts |-> [w.sts EXCEPT ![h] = m.st], fault |-> m.fault]
Cloned(w, r) ==
    [nodes |-> r.m.nodes, bufs |-> r.m.bufs, blocks |-> r.m.blocks,
     sts |-> Append(w.sts, r.clone), fault |-> r.m.fault]

RECURSIVE Build(_, _)
\* the calls of a script, in order
Build(w, script) ==
    IF script = <<>> THEN w
    ELSE IF Head(script).op = "insert"
         THEN Build(After(w, Head(script).h,
                          st_insert(Of(w, Head(script).h), Head(script).pos,
                                    Head(script).data, Head(script).len).m),
                    Tail(script))
         ELSE IF Head(script).op = "delete"
         THEN Build(After(w, Head(script).h,
                          st_delete(Of(w, Head(script).h), Head(script).pos,
                                    Head(script).len).m),
                    Tail(script))
         ELSE Build(Cloned(w, st_clone(Of(w, Head(script).h))), Tail(script))

RECURSIVE BuildStr(_, _)
\* the same calls on plain strings
BuildStr(ss, script) ==
    IF script = <<>> THEN ss
    ELSE IF Head(script).op = "insert"
         THEN BuildStr([ss EXCEPT ![Head(script).h] =
                            StrInsert(@, Head(script).pos, Head(script).data)],
                       Tail(script))
         ELSE IF Head(script).op = "delete"
         THEN BuildStr([ss EXCEPT ![Head(script).h] =
                            StrDelete(@, Head(script).pos, Head(script).len)],
                       Tail(script))
         ELSE BuildStr(Append(ss, ss[Head(script).h]), Tail(script))

\* st_new_from_file, as the first handle of a heap
FromFile(m) ==
    [nodes |-> m.nodes, bufs |-> m.bufs, blocks |-> m.blocks, sts |-> <<m.st>>,
     fault |-> m.fault]

\* the machine as the call on handle h sees iter
Mach(h) == [nodes |-> nodes, bufs |-> bufs, blocks |-> blocks, st |-> sts[h], fault |-> fault]

Handles == DOMAIN sts

\* the bytes of rope h
Content(h) ==
    IF sts[h].levels = 0 THEN <<>> ELSE TreeBytes(Mach(h), sts[h].root, sts[h].levels)
Size(h) == IF sts[h].levels = 0 THEN 0 ELSE st_size(Mach(h))

\* the content of every handle
Contents == [k \in Handles |-> Content(k)]

\* the heap and the handles, as a call finds them
Heap == [nodes |-> nodes, bufs |-> bufs, blocks |-> blocks, sts |-> sts]

\* no thread is editing
NoThreads == <<>>
\* st_new_from_file was not called
NoIO ==
    [called |-> FALSE, ret |-> "none", fds |-> {},
     env |-> [file |-> <<>>, fd |-> 0, got |-> 0, mapped |-> FALSE]]

\* no function was called on its own
NoCall == [fn |-> "none"]

NoIter == FreshIter(0, NULL)
\* what the iterator it denotes: the bytes of its chunk and the byte at its cursor
Denotes(m, it) ==
    [chunk |-> SliceBytes(m, st_iter_chunk(m, it).ptr, st_iter_chunk(m, it).len),
     byte |-> st_iter_byte(m, it)]

NoWalk ==
    [bytes |-> <<>>, phase |-> "none", steps |-> 0, defined |-> TRUE,
     at |-> [chunk |-> <<>>, byte |-> [ret |-> -1, defined |-> TRUE]]]

\* the heap w and its handles, with the plain strings ss beside them
InitHeap(w, ss) ==
    /\ nodes = w.nodes
    /\ bufs = w.bufs
    /\ blocks = w.blocks
    /\ sts = w.sts
    /\ iter = NoIter
    /\ fault = w.fault
    /\ shadow = ss
    /\ lfsum = [k \in DOMAIN ss |-> count_lfs(ss[k])]
    /\ last = [op |-> "new", h |-> 1, pos |-> 0, len |-> 0, ret |-> 0, size |-> 0,
               data |-> <<>>, pre |-> <<>>, others |-> <<>>,
               heap |-> [nodes |-> w.nodes, bufs |-> w.bufs, blocks |-> w.blocks,
                         sts |-> w.sts]]
    /\ walk = NoWalk
    /\ thr = NoThreads
    /\ io = NoIO

InitFrom(w, ss) == InitHeap(w, ss) /\ call = NoCall

Init ==
    \E sc \in Scenarios :
        /\ InitFrom(Build(FromFile(st_new_from_file(EmptyMachine, sc.file)), sc.script),
                    BuildStr(<<sc.file>>, sc.script))
        /\ budget = MIN(sc.free, MaxOps)

\* the heap and the handle h after a call
Commit(m, h) ==
    /\ nodes' = m.nodes
    /\ bufs' = m.bufs
    /\ blocks' = m.blocks
    /\ sts' = [sts EXCEPT ![h] = m.st]
    /\ fault' = m.fault

\* r is what st_insert returned
InsertDone(r, h, pos, data) ==
    /\ Commit(r.m, h)
    /\ shadow' = [shadow EXCEPT ![h] = StrInsert(@, pos, data)]
    /\ lfsum' = [lfsum EXCEPT ![h] = @ + r.ret]
    /\ last' = [op |-> "insert", h |-> h, pos |-> pos, len |-> Len(data), ret |-> r.ret,
                size |-> Size(h), data |-> data, pre |-> Content(h), others |-> Contents,
                heap |-> Heap]

Insert(h, pos, data) ==
    /\ fault = "none" /\ budget > 0 /\ iter.st = 0
    /\ pos <= Size(h)
    /\ InsertDone(st_insert(Mach(h), pos, data, Len(data)), h, pos, data)
    /\ budget' = budget - 1
    /\ UNCHANGED <<iter, walk, thr, io, call>>

\* r is what st_delete returned
DeleteDone(r, h, pos, len) ==
    /\ Commit(r.m, h)
    /\ shadow' = [shadow EXCEPT ![h] = StrDelete(@, pos, len)]
    /\ lfsum' = [lfsum EXCEPT ![h] = @ - r.ret]
    /\ last' = [op |-> "delete", h |-> h, pos |-> pos, len |-> len, ret |-> r.ret,
                size |-> Size(h), data |-> <<>>, pre |-> Content(h), others |-> Contents,
                heap |-> Heap]

Delete(h, pos, len) ==
    /\ fault = "none" /\ budget > 0 /\ iter.st = 0
    /\ pos <= Size(h)
    /\ DeleteDone(st_delete(Mach(h), pos, len), h, pos, len)
    /\ budget' = budget - 1
    /\ UNCHANGED <<iter, walk, thr, io, call>>

\* r is what st_clone returned
CloneDone(r, h) ==
    /\ nodes' = r.m.nodes
    /\ bufs' = r.m.bufs
    /\ blocks' = r.m.blocks
    /\ fault' = r.m.fault
    /\ sts' = IF r.m.fault = "none" THEN Append(sts, r.clone) ELSE sts
    /\ shadow' = IF r.m.fault = "none" THEN Append(shadow, shadow[h]) ELSE shadow
    /\ lfsum' = IF r.m.fault = "none" THEN Append(lfsum, lfsum[h]) ELSE lfsum
    /\ last' = [op |-> "clone", h |-> h, pos |-> 0, len |-> 0, ret |-> 0,
                size |-> Size(h), data |-> <<>>, pre |-> Content(h), others |-> Contents,
                heap |-> Heap]

Clone(h) ==
    /\ fault = "none" /\ iter.st = 0
    /\ Len(sts) < MaxHandles
    /\ CloneDone(st_clone(Mach(h)), h)
    /\ UNCHANGED <<iter, walk, budget, thr, io, call>>

Next ==
    \/ \E h \in Handles : \E pos \in 0 .. Size(h), data \in Datas : Insert(h, pos, data)
    \/ \E h \in Handles : \E pos \in 0 .. Size(h), len \in 0 .. (Size(h) + 1) :
            Delete(h, pos, len)
    \/ \E h \in Handles : Clone(h)

Spec == Init /\ [][Next]_vars

\* no handle was passed to st_free / every handle was
Unfreed == \A h \in Handles : sts[h].levels > 0
AllFreed == \A h \in Handles : sts[h].levels = 0

Free(h) ==
    /\ fault = "none" /\ iter.st = 0
    /\ sts[h].levels > 0
    /\ Commit(st_free(Mach(h)), h)
    /\ last' = [op |-> "free", h |-> h, pos |-> 0, len |-> 0, ret |-> 0,
                size |-> Size(h), data |-> <<>>, pre |-> Content(h), others |-> Contents,
                heap |-> Heap]
    /\ UNCHANGED <<iter, shadow, lfsum, walk, budget, thr, io, call>>

NextFree ==
    \/ Unfreed /\ Next
    \/ \E h \in Handles : Free(h)

\* the edits of Spec, then st_free on the handles, one after the other
SpecFree == Init /\ [][NextFree]_vars

\* what may lie in the memory malloc returns for an iterator
Garbage == { NULL, Ptr(1, 0) }

\* st_iter_new; the walk remembers what the iterator denotes
IterNewAt(h, pos, g) ==
    /\ fault = "none" /\ iter.st = 0
    /\ pos <= Size(h)
    /\ iter' = st_iter_new(Mach(h), h, pos, g)
    /\ walk' = [bytes |-> <<>>, phase |-> "chunk", steps |-> 0, defined |-> TRUE,
                at |-> Denotes(Mach(h), st_iter_new(Mach(h), h, pos, g))]
    /\ last' = [op |-> "iter_new", h |-> h, pos |-> pos, len |-> 0, ret |-> 0,
                size |-> Size(h), data |-> <<>>, pre |-> Content(h), others |-> Contents,
                heap |-> Heap]
    /\ UNCHANGED <<nodes, bufs, blocks, sts, fault, shadow, lfsum, thr, io, call>>

IterNew(h, pos, g) == IterNewAt(h, pos, g) /\ UNCHANGED budget

\* c is what st_iter_chunk returned: the walk reads the chunk
IterChunkDone(c) ==
    walk' = [walk EXCEPT !.bytes = IF Readable(Mach(iter.st), c.ptr, c.len)
                                   THEN @ \o Rd(Mach(iter.st), c.ptr, c.len) ELSE @,
                         !.defined = @ /\ Readable(Mach(iter.st), c.ptr, c.len),
                         !.steps = @ + 1,
                         !.phase = "next"]

IterChunk ==
    /\ fault = "none" /\ iter.st # 0
    /\ walk.phase = "chunk" /\ walk.steps < MaxWalk
    /\ IterChunkDone(st_iter_chunk(Mach(iter.st), iter))
    /\ last' = [last EXCEPT !.op = "iter_chunk"]
    /\ UNCHANGED <<nodes, bufs, blocks, sts, iter, fault, shadow, lfsum, budget, thr, io, call>>

\* r is what st_iter_next_chunk returned
IterNextChunkDone(r) ==
    /\ iter' = r.it
    /\ walk' = [walk EXCEPT !.phase = IF r.ret THEN "chunk" ELSE "done"]
    /\ last' = [last EXCEPT !.op = "iter_next_chunk"]

IterNextChunk ==
    /\ fault = "none" /\ iter.st # 0
    /\ walk.phase = "next"
    /\ IterNextChunkDone(st_iter_next_chunk(Mach(iter.st), iter))
    /\ UNCHANGED <<nodes, bufs, blocks, sts, fault, shadow, lfsum, budget, thr, io, call>>

\* st_iter_free
IterFree ==
    /\ fault = "none" /\ iter.st # 0
    /\ iter' = NoIter
    /\ walk' = NoWalk
    /\ last' = [last EXCEPT !.op = "iter_free"]
    /\ UNCHANGED <<nodes, bufs, blocks, sts, fault, shadow, lfsum, budget, thr, io, call>>

NextIter ==
    \/ \E h \in Handles : \E pos \in 0 .. Size(h), g \in Garbage : IterNew(h, pos, g)
    \/ IterChunk
    \/ IterNextChunk
    \/ IterFree

\* the ropes of Init, read through an iterator
SpecIter == Init /\ [][NextIter]_vars

----------------------------------------------------------------------------
(* st_new_from_file and the system calls *)

\* the files st_new_from_file is called on: empty, up to HIGH_WATER bytes, more
Files == { <<>>, <<"a">>, <<"a", LF>>, File8 }

\* what open returns: failure, the descriptor 0, another descriptor
Fds == { -1, 0, 3 }

\* r is what st_new_from_file returned
NewFromFileDone(r, file, fd, got, mapped) ==
    /\ nodes' = r.m.nodes
    /\ bufs' = r.m.bufs
    /\ blocks' = r.m.blocks
    /\ fault' = r.m.fault
    /\ sts' = IF r.ret = "st" THEN <<r.m.st>> ELSE <<>>
    /\ shadow' = IF r.ret = "st" THEN <<file>> ELSE <<>>
    /\ lfsum' = IF r.ret = "st" THEN <<count_lfs(file)>> ELSE <<>>
    /\ io' = [called |-> TRUE, ret |-> r.ret, fds |-> r.fds,
              env |-> [file |-> file, fd |-> fd, got |-> got, mapped |-> mapped]]

NewFromFile(file, fd, got, mapped) ==
    /\ fault = "none" /\ ~io.called /\ sts = <<>>
    /\ NewFromFileDone(st_new_from_file_env(EmptyMachine, file, fd, got, mapped),
                       file, fd, got, mapped)
    /\ last' = [last EXCEPT !.op = "new_from_file"]
    /\ UNCHANGED <<iter, walk, budget, thr, call>>

\* the number of edits explored after st_new_from_file
MaxFileOps == 1

\* nothing is allocated yet
InitFile ==
    /\ InitFrom([nodes |-> <<>>, bufs |-> <<>>, blocks |-> <<>>, sts |-> <<>>,
                 fault |-> "none"], <<>>)
    /\ budget = MaxFileOps

NextFile ==
    \/ \E file \in Files, fd \in Fds, mapped \in BOOLEAN :
           \E got \in 0 .. MIN(Len(file), HIGH_WATER) : NewFromFile(file, fd, got, mapped)
    \/ Next

\* st_new_from_file under every outcome of its system calls, then the edits of Spec
SpecFile == InitFile /\ [][NextFile]_vars

\* st_new_from_file was called and open failed, or mmap was called and failed, or
\* read was called and returned less than the length of the file
FileFailed ==
    /\ io.called
    /\ \/ io.env.fd = -1
       \/ /\ io.env.fd > 0 /\ Len(io.env.file) > HIGH_WATER /\ ~io.env.mapped
       \/ /\ io.env.fd > 0 /\ Len(io.env.file) \in 1 .. HIGH_WATER
          /\ io.env.got # Len(io.env.file)

----------------------------------------------------------------------------
(* two threads, each editing its own handle *)

Threads == {1, 2}

\* the edits a thread may be given for rope h
ThreadOps(h) ==
    { Ins(h, 0, <<LF>>), Ins(h, Size(h), <<"x", "y">>) }
        \cup (IF Size(h) > 0 THEN { Del(h, 0, 1) } ELSE {})

\* thread t enters st_insert or st_delete on handle t, right after the clone
Start ==
    /\ fault = "none" /\ iter.st = 0 /\ thr = NoThreads
    /\ Len(sts) = 2 /\ last.op = "clone"
    /\ \E o1 \in ThreadOps(1), o2 \in ThreadOps(2) :
           thr' = [t \in Threads |->
                      [pc |-> "load", op |-> IF t = 1 THEN o1 ELSE o2,
                       node |-> 0, copy |-> 0, fill |-> 0, i |-> 0]]
    /\ UNCHANGED <<nodes, bufs, blocks, sts, iter, fault, shadow, lfsum, last, walk,
                   budget, io, call>>

\* ensure_node_editable(&st->root, st->levels): node = *nodeptr and the load of refc
ThrLoad(t) ==
    /\ fault = "none" /\ thr # NoThreads /\ thr[t].pc = "load"
    /\ thr' = [thr EXCEPT ![t].node = sts[t].root,
                          ![t].pc = IF nodes[sts[t].root].refc # 1 THEN "copy" ELSE "edit"]
    /\ UNCHANGED <<nodes, bufs, blocks, sts, iter, fault, shadow, lfsum, last, walk,
                   budget, io, call>>

\* copy = malloc; memcpy(copy, node); copy->refc = 1; fill = node_fill(node, 0)
ThrCopy(t) ==
    /\ fault = "none" /\ thr # NoThreads /\ thr[t].pc = "copy"
    /\ nodes' = Append(nodes, [nodes[thr[t].node] EXCEPT !.refc = 1])
    /\ thr' = [thr EXCEPT ![t].copy = Len(nodes) + 1,
                          ![t].fill = node_fill(nodes[thr[t].node], 0),
                          ![t].i = 0,
                          ![t].pc = IF node_fill(nodes[thr[t].node], 0) = 0
                                    THEN "drop" ELSE "slots"]
    /\ UNCHANGED <<bufs, blocks, sts, iter, fault, shadow, lfsum, last, walk, budget, io, call>>

\* one round of the loop over the slots: in a leaf a small slice is copied and the
\* copy stored in node->child[i]; above the leaves the child's refc is incremented
ThrSlot(t) ==
    /\ fault = "none" /\ thr # NoThreads /\ thr[t].pc = "slots"
    /\ IF sts[t].levels = 1
       THEN IF nodes[thr[t].node].spans[thr[t].i] <= HIGH_WATER
            THEN /\ bufs' = Append(bufs,
                         [data |-> Pad(SliceBytes(Mach(t), nodes[thr[t].node].child[thr[t].i],
                                                  nodes[thr[t].node].spans[thr[t].i]),
                                       HIGH_WATER),
                          live |-> TRUE])
                 /\ nodes' = [nodes EXCEPT ![thr[t].node].child[thr[t].i] =
                                               Ptr(Len(bufs) + 1, 0)]
            ELSE UNCHANGED <<bufs, nodes>>
       ELSE /\ nodes' = [nodes EXCEPT ![nodes[thr[t].node].child[thr[t].i].a].refc = @ + 1]
            /\ UNCHANGED bufs
    /\ thr' = [thr EXCEPT ![t].i = @ + 1,
                          ![t].pc = IF thr[t].i + 1 >= thr[t].fill THEN "drop" ELSE "slots"]
    /\ UNCHANGED <<blocks, sts, iter, fault, shadow, lfsum, last, walk, budget, io, call>>

\* drop_node(node, level)
ThrDrop(t) ==
    /\ fault = "none" /\ thr # NoThreads /\ thr[t].pc = "drop"
    /\ Commit(drop_node(Mach(t), thr[t].node, sts[t].levels), t)
    /\ thr' = [thr EXCEPT ![t].pc = "store"]
    /\ UNCHANGED <<iter, shadow, lfsum, last, walk, budget, io, call>>

\* *nodeptr = copy
ThrStore(t) ==
    /\ fault = "none" /\ thr # NoThreads /\ thr[t].pc = "store"
    /\ sts' = [sts EXCEPT ![t].root = thr[t].copy]
    /\ thr' = [thr EXCEPT ![t].pc = "edit"]
    /\ UNCHANGED <<nodes, bufs, blocks, iter, fault, shadow, lfsum, last, walk, budget, io, call>>

\* the rest of st_insert or st_delete, on the root that is now taken to be editable
ThrEdit(t) ==
    /\ fault = "none" /\ thr # NoThreads /\ thr[t].pc = "edit"
    /\ IF thr[t].op.op = "insert"
       THEN InsertDone(st_insert_edit([m |-> Mach(t), node |-> sts[t].root],
                                      thr[t].op.pos, thr[t].op.data, thr[t].op.len),
                       t, thr[t].op.pos, thr[t].op.data)
       ELSE DeleteDone(st_delete_edit([m |-> Mach(t), node |-> sts[t].root],
                                      thr[t].op.pos,
                                      MIN(thr[t].op.len, Size(t) - thr[t].op.pos)),
                       t, thr[t].op.pos, thr[t].op.len)
    /\ thr' = [thr EXCEPT ![t].pc = "done"]
    /\ UNCHANGED <<iter, walk, budget, io, call>>

NextThreads ==
    \/ \E h \in Handles : Clone(h)
    \/ Start
    \/ \E t \in Threads : ThrLoad(t)
    \/ \E t \in Threads : ThrCopy(t)
    \/ \E t \in Threads : ThrSlot(t)
    \/ \E t \in Threads : ThrDrop(t)
    \/ \E t \in Threads : ThrStore(t)
    \/ \E t \in Threads : ThrEdit(t)

\* a rope is cloned, then two threads edit one handle each, step by step
SpecThreads == Init /\ [][NextThreads]_vars

\* both threads have returned from their edit
ThreadsDone == thr # NoThreads /\ \A t \in Threads : thr[t].pc = "done"

----------------------------------------------------------------------------

\* the number of edits explored while an iterator is held on another rope
MaxBeside == 1

\* st_iter_new on a rope that has a clone
IterNewBeside(h, pos) ==
    /\ Len(sts) > 1
    /\ IterNewAt(h, pos, NULL)
    /\ budget' = MIN(budget, MaxBeside)

\* st_insert on rope h while the iterator is on another rope
InsertBeside(h, pos, data) ==
    /\ fault = "none" /\ budget > 0 /\ iter.st # 0 /\ h # iter.st
    /\ pos <= Size(h)
    /\ InsertDone(st_insert(Mach(h), pos, data, Len(data)), h, pos, data)
    /\ budget' = budget - 1
    /\ UNCHANGED <<iter, walk, thr, io, call>>

\* st_delete on rope h while the iterator is on another rope
DeleteBeside(h, pos, len) ==
    /\ fault = "none" /\ budget > 0 /\ iter.st # 0 /\ h # iter.st
    /\ pos <= Size(h)
    /\ DeleteDone(st_delete(Mach(h), pos, len), h, pos, len)
    /\ budget' = budget - 1
    /\ UNCHANGED <<iter, walk, thr, io, call>>

NextBeside ==
    \/ \E h \in Handles : Clone(h)
    \/ \E h \in Handles : \E pos \in 0 .. Size(h) : IterNewBeside(h, pos)
    \/ \E h \in Handles : \E pos \in 0 .. Size(h), data \in Datas :
            InsertBeside(h, pos, data)
    \/ \E h \in Handles : \E pos \in 0 .. Size(h), len \in 0 .. (Size(h) + 1) :
            DeleteBeside(h, pos, len)

\* a rope and its clone: an iterator on one of them, edits of the other
SpecBeside == Init /\ [][NextBeside]_vars

----------------------------------------------------------------------------
(* what the claims speak of *)

\* the nodes of rope h, each with its level
AllNodes(h) == TreeNodes(Mach(h), sts[h].root, sts[h].levels)

\* the fill check of check_recurse, for every node of rope h
Fill(h) ==
    \A e \in AllNodes(h) :
        IF e.node = sts[h].root
        THEN sts[h].levels > 1 => node_fill(nodes[e.node], 0) >= 2
        ELSE node_fill(nodes[e.node], 0) >= HalfB

\* the child span check of check_recurse, for every inner node of rope h
SpanAcc(h) ==
    \A e \in AllNodes(h) :
        e.level > 1 =>
            \A i \in 0 .. (node_fill(nodes[e.node], 0) - 1) :
                nodes[e.node].spans[i]
                    = node_sum(nodes[nodes[e.node].child[i].a],
                               node_fill(nodes[nodes[e.node].child[i].a], 0))

\* the adjacent slice check of check_recurse, for every leaf of rope h
Adj(h) ==
    \A e \in AllNodes(h) :
        e.level = 1 =>
            \A i \in 1 .. (node_fill(nodes[e.node], 0) - 1) :
                ~(nodes[e.node].spans[i-1] <= HIGH_WATER
                  /\ nodes[e.node].spans[i] <= HIGH_WATER)

RECURSIVE SumFill(_)
SumFill(leaves) ==
    IF leaves = <<>> THEN 0
    ELSE node_fill(nodes[Head(leaves)], 0) + SumFill(Tail(leaves))

\* the number of live slices of rope h
NSlices(h) == SumFill(TreeLeaves(Mach(h), sts[h].root, sts[h].levels))

\* the first n bytes of s
Pfx(s, n) == SubSeq(s, 1, MIN(n, Len(s)))

\* the last call was an edit and it returned
Edited == fault = "none" /\ last.op \in {"insert", "delete"}

\* the bytes the last call, a deletion, was to remove
Removed == SubSeq(last.pre, last.pos + 1, MIN(last.pos + last.len, Len(last.pre)))

\* the walk of iter started at 0 on a rope that st_check_invariants accepts
Walking ==
    /\ fault = "none" /\ iter.st # 0
    /\ last.pos = 0
    /\ st_check_invariants(Mach(iter.st))

\* the last call was an edit with nothing to do: no byte to insert, no byte to
\* delete, or a deletion at the end of the rope
NoOp ==
    /\ last.op \in {"insert", "delete"}
    /\ (last.len = 0 \/ (last.op = "delete" /\ last.pos = last.size))

\* the machine as the last call found it, seen from handle h
PreMach(h) ==
    [nodes |-> last.heap.nodes, bufs |-> last.heap.bufs, blocks |-> last.heap.blocks,
     st |-> last.heap.sts[h], fault |-> "none"]

\* the nodes of all ropes as the last call found them, each with its level
PreNodes ==
    UNION { TreeNodes(PreMach(h), last.heap.sts[h].root, last.heap.sts[h].levels) :
               h \in {k \in DOMAIN last.heap.sts : last.heap.sts[k].levels > 0} }

\* st_check_invariants accepted every rope the last call found
PreSound ==
    \A h \in DOMAIN last.heap.sts :
        last.heap.sts[h].levels > 0 => st_check_invariants(PreMach(h))

\* node n has the spans and child pointers the last call found, and so have the
\* bytes of its small slices if it is a leaf
Untouched(n, level) ==
    /\ nodes[n].spans = last.heap.nodes[n].spans
    /\ nodes[n].child = last.heap.nodes[n].child
    /\ level = 1 =>
           \A i \in 0 .. (node_fill(last.heap.nodes[n], 0) - 1) :
               last.heap.nodes[n].spans[i] <= HIGH_WATER =>
                   bufs[last.heap.nodes[n].child[i].a].data
                       = last.heap.bufs[last.heap.nodes[n].child[i].a].data

\* the live leaf slots of all ropes that span at most HIGH_WATER bytes
SmallSlots ==
    UNION { { [node |-> e.node, i |-> i] :
                i \in { k \in 0 .. (node_fill(nodes[e.node], 0) - 1) :
                           nodes[e.node].spans[k] <= HIGH_WATER } } :
            e \in { x \in UNION { AllNodes(h) : h \in Handles } : x.level = 1 } }

\* the buffer of a leaf slot
BufOf(s) == nodes[s.node].child[s.i].a

\* the last call was st_delete(R, 3, 4) on a rope that held "abcdefghij" in one slice
Scenario2 ==
    /\ last.op = "delete" /\ last.pos = 3 /\ last.len = 4
    /\ last.pre = File10
    /\ last.heap.sts[last.h].levels = 1
    /\ node_fill(last.heap.nodes[last.heap.sts[last.h].root], 0) = 1

RECURSIVE BlockWalk(_, _, _)
\* the blocks met from block b through next, at most fuel of them
BlockWalk(bl, b, fuel) ==
    IF b = 0 \/ fuel = 0 THEN <<>> ELSE <<b>> \o BlockWalk(bl, bl[b].next, fuel - 1)

\* the list of blocks bl that starts at b, cut off after one block more than there are
BlockList(bl, b) == BlockWalk(bl, b, Len(bl) + 1)

\* the list of rope h ends: it has no cycle
ListEnds(h) == Len(BlockList(blocks, sts[h].blocks)) <= Len(blocks)

\* the blocks on the list of rope h
Registered(h) == { BlockList(blocks, sts[h].blocks)[k] : k \in 1 .. Len(BlockList(blocks, sts[h].blocks)) }

RECURSIVE SpansOf(_, _)
\* the spans of the live slots of the leaves, in order
SpansOf(ns, leaves) ==
    IF leaves = <<>> THEN <<>>
    ELSE [k \in 1 .. node_fill(ns[Head(leaves)], 0) |-> ns[Head(leaves)].spans[k-1]]
             \o SpansOf(ns, Tail(leaves))

RECURSIVE Starts(_, _)
\* the slices with the spans given, each with the offset it starts at
Starts(spans, at) ==
    IF spans = <<>> THEN {}
    ELSE {[start |-> at, span |-> Head(spans)]} \cup Starts(Tail(spans), at + Head(spans))

\* the slices of the rope the last call was made on, as the call found them
PreSlices ==
    Starts(SpansOf(last.heap.nodes,
                   TreeLeaves(PreMach(last.h), last.heap.sts[last.h].root,
                              last.heap.sts[last.h].levels)), 0)

\* the last call, a deletion, ended inside large slice s and began at its start or
\* before it: a proper prefix of s was to go
PrefixOf(s) ==
    /\ s.span > HIGH_WATER
    /\ last.pos <= s.start
    /\ s.start < last.pos + last.len /\ last.pos + last.len < s.start + s.span

\* the last call, a deletion, began inside large slice s and went to its end or
\* beyond: s was to be truncated to its first bytes
TruncationOf(s) ==
    /\ s.span > HIGH_WATER
    /\ s.start < last.pos /\ last.pos < s.start + s.span
    /\ last.pos + last.len >= s.start + s.span

\* the last call was a deletion on ropes that st_check_invariants accepts that cut
\* a large slice at one end
LargeCut ==
    /\ last.op = "delete" /\ PreSound
    /\ \E s \in PreSlices : PrefixOf(s) \/ TruncationOf(s)

----------------------------------------------------------------------------
(* merge_slices on its own *)

\* the bytes the slices of a window are cut from
Letters == <<"a", "b", "c", "d", "e", "f", "g", "h", "i", "j", "k", "l", "m", "n", "o">>

\* the spans of the slices of a window: one byte, HIGH_WATER bytes, more
WinSpans == {1, HIGH_WATER, HIGH_WATER + 1}

\* the windows: 1 to 5 slices, tmp[5] being what the callers hand over
Windows == UNION { [1 .. n -> WinSpans] : n \in 1 .. 5 }

RECURSIVE MakeWindow(_, _, _, _)
\* the slices k.. of a window with the spans given, the bytes taken from offset at of
\* Letters: a small slice has a buffer of HIGH_WATER bytes, a large one lies in a
\* block of the rope
MakeWindow(w, spans, k, at) ==
    IF k > Len(spans) THEN w
    ELSE LET buf == Len(w.m.bufs) + 1
             bytes == SubSeq(Letters, at + 1, at + spans[k])
             m1 == IF spans[k] <= HIGH_WATER THEN AllocBuf(w.m, Pad(bytes, HIGH_WATER))
                   ELSE [AllocBuf(w.m, bytes) EXCEPT
                           !.blocks = Append(@, [refc |-> 1, type |-> "HEAP", data |-> buf,
                                                 len |-> spans[k], next |-> w.m.st.blocks,
                                                 live |-> TRUE]),
                           !.st.blocks = Len(w.m.blocks) + 1]
         IN  MakeWindow([m |-> m1, data |-> [w.data EXCEPT ![k-1] = Ptr(buf, 0)]],
                        spans, k + 1, at + spans[k])

RECURSIVE WindowBytes(_, _, _, _, _)
\* the bytes of the slices i.. of a window, one after the other
WindowBytes(m, spans, data, fill, i) ==
    IF i >= fill THEN <<>>
    ELSE SliceBytes(m, data[i], spans[i]) \o WindowBytes(m, spans, data, fill, i + 1)

\* the window w with the spans given, before merge_slices is called on it
InitWindow(w, spans) ==
    /\ InitHeap(FromFile(w.m), <<<<>>>>)
    /\ call = [fn |-> "merge_slices", done |-> FALSE, fill |-> Len(spans),
               spans |-> [k \in Tmp5 |-> IF k < Len(spans) THEN spans[k+1] ELSE 0],
               data |-> w.data,
               in |-> [fill |-> Len(spans), nblocks |-> Len(w.m.blocks),
                       list |-> BlockList(w.m.blocks, w.m.st.blocks),
                       data |-> w.data,
                       bytes |-> WindowBytes(w.m, [k \in Tmp5 |-> IF k < Len(spans)
                                                                   THEN spans[k+1] ELSE 0],
                                             w.data, Len(spans), 0)]]
    /\ budget = 0

InitMerge ==
    \E spans \in Windows :
        InitWindow(MakeWindow([m |-> st_new(EmptyMachine), data |-> NullData5], spans, 1, 0),
                   spans)

\* r is what merge_slices left: the window and the fill it returned
MergeSlicesDone(r) ==
    /\ Commit(r.m, 1)
    /\ call' = [call EXCEPT !.done = TRUE, !.fill = r.fill, !.spans = r.spans,
                            !.data = r.data]

MergeSlices ==
    /\ call.fn = "merge_slices" /\ ~call.done
    /\ MergeSlicesDone(merge_slices(Mach(1), call.spans, call.data, call.fill))
    /\ UNCHANGED <<iter, shadow, lfsum, last, walk, budget, thr, io>>

NextMerge == MergeSlices

\* merge_slices called once on each window
SpecMerge == InitMerge /\ [][NextMerge]_vars

\* the buffers that were released
Released == { b \in DOMAIN bufs : ~bufs[b].live }

\* the blocks made since the window was set up
NewBlocks == (call.in.nblocks + 1) .. Len(blocks)

\* merge_slices has returned
Merged == call.fn = "merge_slices" /\ call.done

----------------------------------------------------------------------------
(* the underflow of a child, step by step *)

\* the ropes a deletion is followed on: of two and of three levels, alone or with a
\* clone, and the rope of two levels after one more insertion
UnderScripts ==
    {TwoLevels, ThreeLevels, TwoLevels \o <<Cln(1)>>, ThreeLevels \o <<Cln(1)>>}
        \cup { TwoLevels \o <<Ins(1, pos, data)>> : pos \in 0 .. 14, data \in Datas \ {<<>>} }

InitUnder ==
    \E script \in UnderScripts :
        /\ InitFrom(Build(FromFile(st_new_from_file(EmptyMachine, File8)), script),
                    BuildStr(<<File8>>, script))
        /\ budget = 0

\* what edit_recurse holds at the root when the call on child i has returned r: the
\* node and the slots it is at, and what the children i and j held then
ChildState(m, r, root, i, j) ==
    [fn |-> "underflow", done |-> FALSE, root |-> root, level |-> m.st.levels,
     i |-> i, j |-> j,
     r |-> [delta |-> r.delta, span |-> r.span, ctx |-> r.ctx, split |-> r.split,
            splitsize |-> r.splitsize],
     fill |-> node_fill(m.nodes[root], 0),
     ifill |-> r.splitsize,
     jfill |-> node_fill(m.nodes[m.nodes[root].child[j].a], 0),
     merged |-> /\ m.st.levels = 2
                /\ LET l == m.nodes[m.nodes[root].child[MIN(i, j)].a]
                       rt == m.nodes[m.nodes[root].child[MAX(i, j)].a]
                   IN  l.spans[node_fill(l, 0) - 1] <= HIGH_WATER /\ rt.spans[0] <= HIGH_WATER,
     spans |-> m.nodes[root].spans[i] + m.nodes[root].spans[j],
     bytes |-> TreeBytes(m, m.nodes[root].child[MIN(i, j)].a, m.st.levels - 1)
                   \o TreeBytes(m, m.nodes[root].child[MAX(i, j)].a, m.st.levels - 1)]

\* r is what the call on child i returned: its delta is applied upwards
ChildReturnsDone(r, h, root, i) ==
    /\ r.m.fault = "none"
    \* children[i] underflowed and is not empty
    /\ r.splitsize # 0 /\ r.split = 0 /\ r.splitsize # ULONG_MAX
    /\ Commit([r.m EXCEPT !.nodes[root].spans[i] = @ + r.delta], h)
    /\ call' = ChildState([r.m EXCEPT !.nodes[root].spans[i] = @ + r.delta], r, root, i,
                          IF i > 0 THEN i - 1 ELSE i + 1)

\* the descent from the editable root e.node into child i, which ec made editable
ChildReturnsFrom(ec, e, h, i, key, len) ==
    ChildReturnsDone(edit_recurse([ec.m EXCEPT !.st.root = e.node,
                                               !.nodes[e.node].child[i] = Ptr(ec.node, 0)],
                                  e.m.st.levels - 1, ec.node, key, 0 - len, "delete",
                                  [data |-> <<>>, lfs |-> 0], 0, 0),
                     h, e.node, i)

\* e is the editable root, no the slot of the root the deletion goes down at
ChildReturnsAt(e, no, h, len) ==
    ChildReturnsFrom(ensure_node_editable(e.m, e.m.nodes[e.node].child[no.i].a,
                                          e.m.st.levels - 1),
                     e, h, no.i, no.key, len)

\* st_delete(h, pos, len) on a rope of several levels, up to the return of the call
\* on the child of the root
ChildReturns(h, pos, len) ==
    /\ fault = "none" /\ call = NoCall
    /\ sts[h].levels > 1 /\ st_check_invariants(Mach(h))
    /\ pos + len <= Size(h)
    /\ ChildReturnsAt(ensure_node_editable(Mach(h), sts[h].root, sts[h].levels),
                      node_offset(nodes[sts[h].root], pos + 1), h, len)
    /\ last' = [op |-> "delete", h |-> h, pos |-> pos, len |-> len, ret |-> 0,
                size |-> Size(h), data |-> <<>>, pre |-> Content(h), others |-> Contents,
                heap |-> Heap]
    /\ UNCHANGED <<iter, shadow, lfsum, walk, budget, thr, io>>

\* the underflow of children[i] is handled
HandleUnderflow ==
    /\ call.fn = "underflow" /\ ~call.done
    /\ Commit(edit_recurse_underflow(Mach(last.h), call.r, call.level,
                                     call.root, call.i, call.j, 0, 0).m, last.h)
    /\ call' = [call EXCEPT !.done = TRUE]
    /\ UNCHANGED <<iter, shadow, lfsum, last, walk, budget, thr, io>>

NextUnder ==
    \/ \E h \in Handles : \E pos \in 0 .. (Size(h) - 1) : \E len \in 1 .. (Size(h) - pos) :
           ChildReturns(h, pos, len)
    \/ HandleUnderflow

\* a deletion down to the underflow of a child of the root, then its handling
SpecUnder == InitUnder /\ [][NextUnder]_vars

\* the underflow was handled
Rebalanced == call.fn = "underflow" /\ call.done

\* the child of the root of the rope that was edited at slot k, and its fill
ChildAt(k) == nodes[call.root].child[k].a
FillAt(k) == node_fill(nodes[ChildAt(k)], 0)
BytesAt(k) == TreeBytes(Mach(last.h), ChildAt(k), call.level - 1)

\* the slots the two children have together once the boundary slices are merged
FillBoth == call.ifill + call.jfill - (IF call.merged THEN 1 ELSE 0)

----------------------------------------------------------------------------
(* the overflow of the root, step by step *)

\* the ropes an edit is followed on: those of UnderScripts, and a single full leaf,
\* alone or with a clone
SplitScripts == UnderScripts \cup {<<Ins(1, 3, Data3)>>, <<Ins(1, 3, Data3), Cln(1)>>}

InitSplit ==
    \E script \in SplitScripts :
        /\ InitFrom(Build(FromFile(st_new_from_file(EmptyMachine, File8)), script),
                    BuildStr(<<File8>>, script))
        /\ budget = 0

\* r is what edit_recurse returned at the root, which has overflowed: sum is the
\* span sum the root had, net the bytes the edit adds
RootReturnsDone(r, h, sum, net) ==
    /\ r.m.fault = "none"
    /\ r.split # 0
    /\ Commit(r.m, h)
    /\ call' = [fn |-> "edit_recurse", done |-> FALSE, root |-> r.m.st.root,
                level |-> r.m.st.levels, sum |-> sum, net |-> net,
                r |-> [delta |-> r.delta, span |-> r.span, ctx |-> r.ctx,
                       split |-> r.split, splitsize |-> r.splitsize]]

\* st_insert up to the return of edit_recurse: e is the editable root
InsertReturns(e, h, pos, data) ==
    /\ RootReturnsDone(edit_recurse([e.m EXCEPT !.st.root = e.node], e.m.st.levels, e.node,
                                    pos, Len(data), "insert", [data |-> data, lfs |-> 0],
                                    0, 0),
                       h, Size(h), Len(data))
    /\ shadow' = [shadow EXCEPT ![h] = StrInsert(@, pos, data)]
    /\ last' = [op |-> "insert", h |-> h, pos |-> pos, len |-> Len(data), ret |-> 0,
                size |-> Size(h), data |-> data, pre |-> Content(h), others |-> Contents,
                heap |-> Heap]

\* st_delete up to the return of edit_recurse in the first round: e is the editable root
DeleteReturns(e, h, pos, len) ==
    /\ RootReturnsDone(edit_recurse([e.m EXCEPT !.st.root = e.node], e.m.st.levels, e.node,
                                    pos + 1, 0 - len, "delete", [data |-> <<>>, lfs |-> 0],
                                    0, 0),
                       h, Size(h), 0 - len)
    /\ shadow' = [shadow EXCEPT ![h] = StrDelete(@, pos, len)]
    /\ last' = [op |-> "delete", h |-> h, pos |-> pos, len |-> len, ret |-> 0,
                size |-> Size(h), data |-> <<>>, pre |-> Content(h), others |-> Contents,
                heap |-> Heap]

RootReturns(h, op, pos, data, len) ==
    /\ fault = "none" /\ call = NoCall
    /\ st_check_invariants(Mach(h))
    /\ IF op = "insert"
       THEN InsertReturns(ensure_node_editable(Mach(h), sts[h].root, sts[h].levels),
                          h, pos, data)
       ELSE DeleteReturns(ensure_node_editable(Mach(h), sts[h].root, sts[h].levels),
                          h, pos, len)
    /\ UNCHANGED <<iter, lfsum, walk, budget, thr, io>>

\* the root split that ends the call
RootSplits ==
    /\ call.fn = "edit_recurse" /\ ~call.done
    /\ Commit(RootFix(Mach(last.h), call.r.split, call.r.splitsize), last.h)
    /\ call' = [call EXCEPT !.done = TRUE]
    /\ UNCHANGED <<iter, shadow, lfsum, last, walk, budget, thr, io>>

NextSplit ==
    \/ \E h \in Handles : \E pos \in 0 .. Size(h), data \in Datas \ {<<>>} :
           RootReturns(h, "insert", pos, data, 0)
    \/ \E h \in Handles : \E pos \in 0 .. (Size(h) - 1) : \E len \in 1 .. (Size(h) - pos) :
           RootReturns(h, "delete", pos, <<>>, len)
    \/ RootSplits

\* an edit down to the overflow of the root, then the root split
SpecSplit == InitSplit /\ [][NextSplit]_vars

\* edit_recurse has returned a split of the root, the root split is still to come
Overflowed == call.fn = "edit_recurse" /\ ~call.done

\* the left node kept in place and the new right node, with what they hold
LeftFill == node_fill(nodes[call.root], 0)
RightFill == node_fill(nodes[call.r.split], 0)
LeftBytes == TreeBytes(Mach(last.h), call.root, call.level)
RightBytes == TreeBytes(Mach(last.h), call.r.split, call.level)

\* what holds of a split whatever the claim says of the delta
SplitShape ==
    /\ fault = "none"
    /\ LeftFill >= HalfB /\ RightFill >= HalfB
    /\ LeftBytes \o RightBytes = shadow[last.h]
    /\ node_sum(nodes[call.root], LeftFill) = call.sum + call.r.delta
    /\ node_sum(nodes[call.r.split], RightFill) = call.r.splitsize

\* the nodes of rope h as the last call found them
PreNodesOf(h) == TreeNodes(PreMach(h), last.heap.sts[h].root, last.heap.sts[h].levels)

\* the ropes other than the one the last call edited that shared its root
SharedWith ==
    { h \in DOMAIN last.heap.sts \ {last.h} :
         /\ last.heap.sts[h].levels > 0
         /\ last.heap.sts[h].root = last.heap.sts[last.h].root }

\* the nodes of all ropes
LiveTree == UNION { {e.node : e \in AllNodes(h)} : h \in {k \in Handles : sts[k].levels > 0} }

\* the parents and the handles that reference node n
Referrers(n) ==
    Cardinality({ p \in LiveTree : \E i \in 0 .. (node_fill(nodes[p], 0) - 1) :
                                       \E e \in UNION { AllNodes(h) : h \in Handles } :
                                           e.node = p /\ e.level > 1
                                           /\ nodes[p].child[i] = Ptr(n, 0) })
        + Cardinality({ h \in Handles : sts[h].levels > 0 /\ sts[h].root = n })

\* the nodes made by the last call
NewNodes == (Len(last.heap.nodes) + 1) .. Len(nodes)

\* the last call was an edit, which returned, of a rope that shared its tree with
\* another, all ropes being such that st_check_invariants accepts them
SharedEdit == Edited /\ PreSound /\ SharedWith # {}

RECURSIVE SlotsOf(_, _)
\* the live slots of the leaves, in order: the leaf, the index, the span and the data
SlotsOf(ns, leaves) ==
    IF leaves = <<>> THEN <<>>
    ELSE [k \in 1 .. node_fill(ns[Head(leaves)], 0) |->
             [leaf |-> Head(leaves), i |-> k - 1, span |-> ns[Head(leaves)].spans[k-1],
              data |-> ns[Head(leaves)].child[k-1]]]
         \o SlotsOf(ns, Tail(leaves))

\* the slots of the rope the last call was made on, as it found them and as it left them
PreSlots ==
    SlotsOf(last.heap.nodes, TreeLeaves(PreMach(last.h), last.heap.sts[last.h].root,
                                        last.heap.sts[last.h].levels))
PostSlots == SlotsOf(nodes, TreeLeaves(Mach(last.h), sts[last.h].root, sts[last.h].levels))

RECURSIVE StartOf(_, _)
\* the offset slot k starts at
StartOf(slots, k) == IF k <= 1 THEN 0 ELSE StartOf(slots, k - 1) + slots[k-1].span

\* the slot that holds offset pos > 0: it starts before pos and ends at pos or behind it
SlotAt(slots, pos) ==
    CHOOSE k \in 1 .. Len(slots) :
        StartOf(slots, k) < pos /\ pos <= StartOf(slots, k) + slots[k].span

\* the small slice an insertion at pos accumulates into, 0 if there is none: the first
\* slice for pos = 0; the slice pos lies in or ends; the slice that follows in the
\* same leaf when pos ends a large slice
SmallTarget(slots, pos) ==
    IF slots = <<>> THEN 0
    ELSE IF pos = 0 THEN (IF slots[1].span <= HIGH_WATER THEN 1 ELSE 0)
    ELSE LET k == SlotAt(slots, pos)
         IN  IF slots[k].span <= HIGH_WATER THEN k
             ELSE IF /\ pos = StartOf(slots, k) + slots[k].span
                     /\ k < Len(slots)
                     /\ slots[k+1].leaf = slots[k].leaf
                     /\ slots[k+1].span <= HIGH_WATER
                  THEN k + 1
                  ELSE 0

\* the last call was an insertion of some bytes, on ropes that st_check_invariants
\* accepts, at a position where a small slice takes them
SmallInsert ==
    /\ last.op = "insert" /\ last.len > 0 /\ PreSound
    /\ SmallTarget(PreSlots, last.pos) # 0

\* the last call was an insertion into a rope of one leaf with one slice at most,
\* which holds HIGH_WATER bytes at most with the bytes inserted
GrowsSmall ==
    /\ last.op = "insert" /\ last.len > 0 /\ PreSound
    /\ last.heap.sts[last.h].levels = 1
    /\ Len(PreSlots) <= 1
    /\ last.size + last.len <= HIGH_WATER

----------------------------------------------------------------------------
(* the iterator moved by bytes *)

\* the number of moves explored on one iterator
MaxMoves == 2

\* *it->data: a read through a pointer that points into no live buffer is undefined
iter_deref(m, it) ==
    IF Readable(m, it.data, 1)
    THEN [it |-> it, ret |-> m.bufs[it.data.a].data[it.data.o + 1], defined |-> TRUE,
          eof |-> FALSE]
    ELSE [it |-> it, ret |-> UNINIT, defined |-> FALSE, eof |-> FALSE]

\* it->off += count; it->data += count; it->pos += count (count may be negative)
iter_shift(it, count) ==
    [it EXCEPT !.off = Wrap(@ + count),
               !.data = Ptr(@.a, @.o + count),
               !.pos = Wrap(@ + count)]

RECURSIVE st_iter_next_byte(_, _, _)
\* left is what remains of the chunk
st_iter_next_byte_left(m, it, count, left) ==
    IF count < left
    THEN iter_deref(m, iter_shift(it, count))
    \* cursor ends up off end if no next chunk
    ELSE st_iter_next_byte(m, st_iter_next_chunk(m, it).it, count - left)

\* returns the iterator, the byte, whether the byte was read from live memory and
\* whether it is the -1 of the end rather than a byte read
st_iter_next_byte(m, it, count) ==
    IF it.wild THEN [it |-> it, ret |-> UNINIT, defined |-> FALSE, eof |-> FALSE]
    ELSE IF iter_off_end(m, it) THEN [it |-> it, ret |-> -1, defined |-> TRUE, eof |-> TRUE]
    ELSE st_iter_next_byte_left(m, it, count,
                                Wrap(At(m.nodes[it.leaf].spans, it.node_offset, 0) - it.off))

RECURSIVE iter_up_prev(_, _, _)
\* while(si < iter_stacksize(it) && s.idx == 0) s = it->stack[++si];
iter_up_prev(m, it, si) ==
    IF si < iter_stacksize(m) /\ it.stack[si].idx = 0
    THEN iter_up_prev(m, it, si + 1)
    ELSE si

\* the last slot of node, as a stack entry
iter_last_entry(m, node) == [node |-> node, idx |-> node_fill(m.nodes[node], 0) - 1]

RECURSIVE iter_down_prev(_, _, _)
\* while(--si > 0): the levels below si restart at the last slot of the last child
iter_down_prev(m, stack, si) ==
    IF si - 1 > 0
    THEN iter_down_prev(
             m,
             [stack EXCEPT ![si - 1] =
                 iter_last_entry(m, m.nodes[stack[si].node].child[
                                        node_fill(m.nodes[stack[si].node], 0) - 1].a)],
             si - 1)
    ELSE stack

\* the stack was sufficient: leaf is the leaf under stack[0], fill its fill
st_iter_prev_leaf(m, it, stack, leaf, fill) ==
    [it |-> [it EXCEPT !.stack = stack,
                       !.leaf = leaf,
                       !.node_offset = fill - 1,
                       !.wild = @ \/ (fill - 1) \notin Slots,
                       !.off = Wrap(At(m.nodes[leaf].spans, fill - 1, 0) - 1),
                       !.data = Ptr(At(m.nodes[leaf].child, fill - 1, NULL).a,
                                    At(m.nodes[leaf].child, fill - 1, NULL).o
                                        + Wrap(At(m.nodes[leaf].spans, fill - 1, 0) - 1))],
     ret |-> TRUE]

st_iter_prev_down(m, it, stack) ==
    st_iter_prev_leaf(m, it, stack,
                      m.nodes[stack[0].node].child[stack[0].idx].a,
                      node_fill(m.nodes[m.nodes[stack[0].node].child[stack[0].idx].a], 0))

\* if stack was insufficient, reinitialize: it is the iterator found
st_iter_prev_scan(it) == [it |-> it, ret |-> it.pos > 0]

\* si is the level the upwards traversal stopped at
st_iter_prev_up(m, it, si) ==
    IF si # iter_stacksize(m)
    THEN st_iter_prev_down(m, it, iter_down_prev(m, [it.stack EXCEPT ![si].idx = @ - 1], si))
    ELSE st_iter_prev_scan(st_iter_to(m, it, MAX(0, Wrap(it.pos - it.off - 1))))

\* it is the iterator with pos moved back
st_iter_prev_chunk_from(m, it, i, leaf) ==
    \* fast path: same leaf
    IF i > 0
    THEN [it |-> [it EXCEPT !.node_offset = i - 1,
                            !.off = Wrap(At(m.nodes[leaf].spans, i - 1, 0) - 1),
                            !.data = Ptr(At(m.nodes[leaf].child, i - 1, NULL).a,
                                         At(m.nodes[leaf].child, i - 1, NULL).o
                                             + Wrap(At(m.nodes[leaf].spans, i - 1, 0) - 1))],
          ret |-> TRUE]
    ELSE st_iter_prev_up(m, it, iter_up_prev(m, it, 0))

\* returns the iterator and the result
st_iter_prev_chunk(m, it) ==
    IF it.wild THEN [it |-> it, ret |-> TRUE]
    ELSE st_iter_prev_chunk_from(m, [it EXCEPT !.pos = Wrap(@ - (it.off + 1))],
                                 it.node_offset, it.leaf)

RECURSIVE st_iter_prev_byte(_, _, _)
\* returns the iterator, the byte, whether the byte was read from live memory and
\* whether it is the -1 of the start rather than a byte read
st_iter_prev_byte(m, it, count) ==
    IF it.wild THEN [it |-> it, ret |-> UNINIT, defined |-> FALSE, eof |-> FALSE]
    ELSE IF it.pos = 0 THEN [it |-> it, ret |-> -1, defined |-> TRUE, eof |-> TRUE]
    ELSE IF count <= it.off
         THEN iter_deref(m, iter_shift(it, 0 - count))
         ELSE st_iter_prev_byte(m, st_iter_prev_chunk(m, it).it, count - it.off)

\* r is what the call fn(it, count) returned
IterMoved(fn, count, r) ==
    /\ iter' = r.it
    /\ call' = [fn |-> fn, count |-> count, was |-> iter, ret |-> r.ret,
                defined |-> r.defined, eof |-> r.eof]
    /\ walk' = [walk EXCEPT !.steps = @ + 1]
    /\ last' = [last EXCEPT !.op = fn]

IterNextByte(n) ==
    /\ fault = "none" /\ iter.st # 0 /\ walk.steps < MaxMoves
    /\ IterMoved("st_iter_next_byte", n, st_iter_next_byte(Mach(iter.st), iter, n))
    /\ UNCHANGED <<nodes, bufs, blocks, sts, fault, shadow, lfsum, budget, thr, io>>

IterPrevByte(n) ==
    /\ fault = "none" /\ iter.st # 0 /\ walk.steps < MaxMoves
    /\ IterMoved("st_iter_prev_byte", n, st_iter_prev_byte(Mach(iter.st), iter, n))
    /\ UNCHANGED <<nodes, bufs, blocks, sts, fault, shadow, lfsum, budget, thr, io>>

\* r is what st_iter_prev_chunk returned
IterPrevChunkDone(r) ==
    IterMoved("st_iter_prev_chunk", 0,
              [it |-> r.it, ret |-> r.ret, defined |-> TRUE, eof |-> FALSE])

IterPrevChunk ==
    /\ fault = "none" /\ iter.st # 0 /\ walk.steps < MaxMoves
    /\ IterPrevChunkDone(st_iter_prev_chunk(Mach(iter.st), iter))
    /\ UNCHANGED <<nodes, bufs, blocks, sts, fault, shadow, lfsum, budget, thr, io>>

NextMove ==
    \/ \E h \in Handles : \E pos \in 0 .. Size(h), g \in Garbage :
            IterNew(h, pos, g)
    \/ iter.st # 0 /\ \E n \in 0 .. (Size(iter.st) + 1) : IterNextByte(n)
    \/ iter.st # 0 /\ \E n \in 0 .. (Size(iter.st) + 1) : IterPrevByte(n)
    \/ IterPrevChunk

\* the ropes of Init, each with an iterator moved by bytes and by chunks
SpecMove == Init /\ [][NextMove]_vars

\* the iterator it is in the state st_iter_new(R, pos) gives
FreshAt(it, pos) ==
    /\ ~it.wild
    /\ pos <= Size(it.st)
    /\ it = st_iter_to(Mach(it.st), it, pos)

\* the call returned the byte at offset pos of the rope, -1 at its end
ByteAt(pos) ==
    /\ call.eof = (pos >= Size(iter.st))
    /\ ~call.eof => call.ret = Content(iter.st)[pos + 1]

\* the cursor of the iterator it is in the first slice of the rope
FirstChunk(it) == it.pos = it.off

\* the last move was fn, made on a rope that satisfies st_check_invariants by an
\* iterator st_iter_new could have given
Moved(fn) ==
    /\ fault = "none" /\ iter.st # 0
    /\ call.fn = fn
    /\ st_check_invariants(Mach(iter.st))
    /\ FreshAt(call.was, call.was.pos)

----------------------------------------------------------------------------
(* the lifetime of blocks *)

\* the ropes st_free was not called on
UnfreedHandles == { h \in Handles : sts[h].levels > 0 }

\* the large slices rope h reaches
LargeSlotsOf(h) ==
    { SlotsOf(nodes, TreeLeaves(Mach(h), sts[h].root, sts[h].levels))[k] :
        k \in { j \in 1 .. Len(SlotsOf(nodes, TreeLeaves(Mach(h), sts[h].root, sts[h].levels))) :
                  SlotsOf(nodes, TreeLeaves(Mach(h), sts[h].root, sts[h].levels))[j].span
                      > HIGH_WATER } }

\* the blocks whose data the slot s points into
BlocksOf(s) == { k \in DOMAIN blocks : blocks[k].data = s.data.a }

\* the blocks that were released
ReleasedBlocks == { k \in DOMAIN blocks : ~blocks[k].live }

\* clone, insert, delete and free in every order: the edits go on after a st_free, on
\* the ropes that are left
NextLife ==
    \/ \E h \in UnfreedHandles : \E pos \in 0 .. Size(h), data \in Datas : Insert(h, pos, data)
    \/ \E h \in UnfreedHandles : \E pos \in 0 .. Size(h), len \in 0 .. (Size(h) + 1) :
            Delete(h, pos, len)
    \/ \E h \in UnfreedHandles : Clone(h)
    \/ \E h \in Handles : Free(h)

SpecLife == Init /\ [][NextLife]_vars

----------------------------------------------------------------------------
(* the slots of a node *)

\* slot k of node n is dead for node_fill / for the iterators and node_offset
NullChild(n, k) == IsNull(n.child[k])
EmptySpan(n, k) == n.spans[k] = ULONG_MAX

RECURSIVE span_fill(_, _)
\* the fill the iterators see: the slots before the first EMPTY span
span_fill(n, i) == IF i < B /\ ~EmptySpan(n, i) THEN span_fill(n, i + 1) ELSE i

\* the nodes of the ropes that were not freed
ReachedNodes == UNION { {e.node : e \in AllNodes(h)} : h \in {k \in Handles : sts[k].levels > 0} }

----------------------------------------------------------------------------
(* the claims *)

\* C1: round trip.  A rope built from a byte string by st_insert and st_delete calls
\* (no clone involved) dumps, slice after slice, the bytes the same edits leave of
\* the plain string.
RoundTrip ==
    (fault = "none" /\ Len(sts) = 1) => st_dump(Mach(1)) = shadow[1]

\* C2: clone isolation.  An edit of a rope whose st_size was the length of its
\* content leaves the content of every other rope (its clone, or the rope it was
\* cloned from) as it was before the call.
CloneIsolation ==
    (Edited /\ last.size = Len(last.pre)) =>
        \A k \in DOMAIN last.others : k # last.h => Content(k) = last.others[k]

\* C3: size consistency.  After an edit of a rope its st_size is the number of bytes
\* of its content, and an st_insert has grown st_size by exactly len.
SizeConsistency ==
    Edited => /\ Size(last.h) = Len(Content(last.h))
              /\ last.op = "insert" => Size(last.h) = last.size + last.len

\* C4: fill invariant.  After an edit of a rope every node of it that is not the
\* root has fill >= ceil(B/2), and the root has fill >= 2 when levels > 1.
FillInvariant == Edited => Fill(last.h)

\* C5: span accounting.  After an edit of a rope, every live slot of every inner
\* node of it holds the sum of the live spans of its child.
SpanAccounting == Edited => SpanAcc(last.h)

\* C6: adjacency rule.  Whenever a call has returned, no leaf of any rope has two
\* adjacent live slots that both span <= HIGH_WATER bytes.
AdjacencyRule == fault = "none" => \A h \in Handles : Adj(h)

\* C6, its case: an st_insert of at most HIGH_WATER bytes has returned and left a
\* leaf of several slices, one of them small, in the rope
AdjacencyWitness ==
    /\ Edited /\ last.op = "insert" /\ last.len <= HIGH_WATER
    /\ \E e \in AllNodes(last.h) :
           /\ e.level = 1 /\ node_fill(nodes[e.node], 0) >= 2
           /\ \E i \in 0 .. (node_fill(nodes[e.node], 0) - 1) :
                  nodes[e.node].spans[i] <= HIGH_WATER
           /\ sts[last.h].levels > 1

\* C7: out-of-range clamping.  st_delete(R, p, len) with p <= st_size(R) and
\* p + len > st_size(R) returns, st_size(R) is p afterwards and the first p bytes
\* of the content are the ones of before.
Clamping ==
    (last.op = "delete" /\ last.pos + last.len > last.size) =>
        /\ fault = "none"
        /\ Size(last.h) = last.pos
        /\ Pfx(Content(last.h), last.pos) = Pfx(last.pre, last.pos)

\* C8: newline count.  st_insert returns the number of newlines of the data and
\* st_delete the number of newlines among the bytes it removed, so the returned
\* counts add up to the change of the content's newline count.
NewlineCount ==
    (Edited /\ last.size = Len(last.pre)) =>
        /\ last.op = "insert" => last.ret = count_lfs(last.data)
        /\ last.op = "delete" => last.ret = count_lfs(Removed)
        /\ Len(sts) = 1 => lfsum[1] = count_lfs(shadow[1])

\* C9: iterator coherence.  A walk from st_iter_new(R, 0) reads each chunk from live
\* memory, reads no more chunks than R has slices (one for the empty rope), and
\* when st_iter_next_chunk returns false the chunks read are the content of R.
IteratorCoherence ==
    Walking =>
        /\ walk.defined
        /\ walk.steps <= MAX(1, NSlices(iter.st))
        /\ walk.phase = "done" => walk.bytes = Content(iter.st)

\* C10: st_iter_new(R, pos) with pos <= st_size(R) gives an iterator whose
\* st_iter_pos is pos and whose st_iter_byte is the byte at offset pos of the
\* content, or -1 when pos = st_size(R).
IterNewByte ==
    (fault = "none" /\ last.op = "iter_new" /\ st_check_invariants(Mach(iter.st))) =>
        /\ st_iter_pos(iter) = last.pos
        /\ st_iter_byte(Mach(iter.st), iter).defined
        /\ st_iter_byte(Mach(iter.st), iter).ret
               = IF last.pos < Size(iter.st) THEN Content(iter.st)[last.pos + 1] ELSE -1

\* C11: no-op edits.  st_insert with len = 0 and st_delete with len = 0 or with
\* pos = st_size return 0 and leave every node, buffer, block, refcount and the
\* handle (root, levels, blocks) as they were: nothing is copied.
NoOpEdit == NoOp => (fault = "none" /\ last.ret = 0 /\ Heap = last.heap)

\* C11, its case: st_delete of some bytes at the end of a rope whose root is shared
\* with a clone has returned
NoOpWitness ==
    /\ NoOp /\ fault = "none"
    /\ last.op = "delete" /\ last.len > 0
    /\ nodes[sts[last.h].root].refc > 1

\* C12: st_clone returns on every rope, also one without blocks: there is one handle
\* more, with the root, levels and blocks of the source; the root's refcount is one
\* higher, the head block's refcount is one higher when there is a block, and
\* nothing else has changed.
CloneSucceeds ==
    last.op = "clone" =>
        /\ fault = "none"
        /\ sts = Append(last.heap.sts, last.heap.sts[last.h])
        /\ bufs = last.heap.bufs
        /\ nodes = [last.heap.nodes EXCEPT ![last.heap.sts[last.h].root].refc = @ + 1]
        /\ blocks = IF last.heap.sts[last.h].blocks = 0 THEN last.heap.blocks
                    ELSE [last.heap.blocks EXCEPT ![last.heap.sts[last.h].blocks].refc = @ + 1]

\* C13: no leak and no double release.  Every st_free returns, and when st_free has
\* been called on every handle no node, no buffer and no block is left allocated.
NoLeak ==
    /\ last.op = "free" => fault = "none"
    /\ AllFreed => /\ \A n \in DOMAIN nodes : ~nodes[n].live
                   /\ \A b \in DOMAIN bufs : ~bufs[b].live
                   /\ \A k \in DOMAIN blocks : ~blocks[k].live

\* C14: refcount discipline.  An edit of ropes that st_check_invariants accepts
\* writes to no node whose refcount is above 1: every node of a rope that had
\* refcount > 1 when st_insert or st_delete was called has the same spans, child
\* pointers and small slice bytes when the call returns.
RefcountDiscipline ==
    (Edited /\ PreSound) =>
        \A e \in PreNodes :
            last.heap.nodes[e.node].refc > 1 => Untouched(e.node, e.level)

\* C15: ownership by span class.  Whenever a call has returned, the buffer of a live
\* leaf slot that spans at most HIGH_WATER bytes is the buffer of no other live leaf
\* slot and the data of no block.
OwnershipBySpan ==
    fault = "none" =>
        \A s \in SmallSlots :
            /\ \A t \in SmallSlots : t # s => BufOf(t) # BufOf(s)
            /\ \A k \in DOMAIN blocks : blocks[k].live => blocks[k].data # BufOf(s)

\* C16: an iterator on one rope keeps denoting the same bytes while another rope
\* that shares nodes with it is edited: st_iter_chunk and st_iter_byte give what
\* they gave when the iterator was positioned.
IterIsolation ==
    ( /\ fault = "none" /\ iter.st # 0
      /\ last.op \in {"insert", "delete"} /\ last.h # iter.st
      /\ PreSound /\ walk.at.byte.defined )
    => Denotes(Mach(iter.st), iter) = walk.at

\* C17: independent concurrent mutators.  Two threads that edit one handle each of
\* a rope and its clone do not die, and when both have returned no small buffer
\* is held by two leaf slots, every node of both ropes is allocated, and each rope
\* holds its own edit applied to the content it was cloned with.
ConcurrentMutators ==
    /\ thr # NoThreads => fault = "none"
    /\ ThreadsDone =>
           /\ \A s \in SmallSlots : \A u \in SmallSlots : u # s => BufOf(u) # BufOf(s)
           /\ \A h \in Handles : \A e \in AllNodes(h) : nodes[e.node].live
           /\ \A h \in Handles : Content(h) = shadow[h]

\* C18: when open fails, mmap fails or read is short, st_new_from_file returns
\* NULL and leaves nothing behind: no rope, node, buffer or block is allocated and
\* no descriptor is open.
FileFailure ==
    FileFailed =>
        /\ io.ret = "NULL" /\ sts = <<>> /\ fault = "none"
        /\ \A n \in DOMAIN nodes : ~nodes[n].live
        /\ \A b \in DOMAIN bufs : ~bufs[b].live
        /\ \A k \in DOMAIN blocks : ~blocks[k].live
        /\ io.fds = {}

\* C19: the second scenario.  On a rope that holds "abcdefghij" in one slice,
\* delete(3, 4) returns and leaves the content "abchij" and the size 6.
DeleteScenario ==
    Scenario2 =>
        /\ fault = "none"
        /\ Content(last.h) = <<"a", "b", "c", "h", "i", "j">>
        /\ Size(last.h) = 6

\* C19, its case: delete(3, 4) on that rope has returned
DeleteScenarioWitness == Scenario2 /\ fault = "none"

\* C19 as the specification states it: delete(3, 4) leaves "abcij" and the size 5
DeleteScenarioAsStated ==
    Scenario2 =>
        /\ Content(last.h) = <<"a", "b", "c", "i", "j">>
        /\ Size(last.h) = 5

\* C20: termination of deletion.  On ropes that st_check_invariants accepts,
\* st_delete(R, pos, len) with pos <= st_size(R) returns: its loop ends, every
\* round takes bytes off the remaining length, which reaches 0 and does not wrap,
\* and st_size(R) has gone down by the length clamped to the bytes behind pos.
DeleteTerminates ==
    (last.op = "delete" /\ PreSound) =>
        /\ fault = "none"
        /\ Size(last.h) = last.size - MIN(last.len, last.size - last.pos)

\* C20, its case: a deletion that starts in the first leaf of a rope of several
\* levels and ends behind it, which takes several rounds, has returned
DeleteTerminatesWitness ==
    /\ last.op = "delete" /\ PreSound /\ fault = "none"
    /\ last.heap.sts[last.h].levels > 1
    /\ last.pos < last.heap.nodes[last.heap.sts[last.h].root].spans[0]
    /\ last.pos + last.len > last.heap.nodes[last.heap.sts[last.h].root].spans[0]
    /\ last.pos + last.len <= last.size

\* C21: block registry.  st_insert returns on ropes that st_check_invariants
\* accepts, also when the rope has no block; whenever a call has returned, the list
\* from the blocks field of every rope through next ends, and every allocated block
\* is on the list of some rope; and an st_insert that has created one block has
\* pushed it at the head of the list the rope had, which lost no block.
BlockRegistry ==
    /\ (last.op = "insert" /\ PreSound) => fault = "none"
    /\ (fault = "none" /\ Unfreed) =>
           /\ \A h \in Handles : ListEnds(h)
           /\ \A b \in DOMAIN blocks : blocks[b].live => \E h \in Handles : b \in Registered(h)
    /\ (Edited /\ last.op = "insert" /\ Len(blocks) = Len(last.heap.blocks) + 1) =>
           BlockList(blocks, sts[last.h].blocks)
               = <<Len(blocks)>> \o BlockList(last.heap.blocks, last.heap.sts[last.h].blocks)

\* C22: a deletion that takes a proper prefix of k bytes off a large slice, or
\* truncates a large slice to its first pos bytes, returns and leaves the other
\* bytes of that slice as they were: the rope holds the bytes it held without the
\* deleted range, whether the rest of the slice is above HIGH_WATER or not.
LargeSliceCut ==
    LargeCut => (fault = "none" /\ Content(last.h) = StrDelete(last.pre, last.pos, last.len))

\* C23: merge_slices postcondition.  On every window of 1 to 5 slices with spans
\* above 0, merge_slices returns; no two neighbours of the window it leaves span at
\* most HIGH_WATER bytes both; the bytes of the window, slice after slice, are the
\* bytes it was called with; the fill returned is the fill given less the merges
\* made (each merge releases the buffer of one slice, each promotion the buffer it
\* reallocates); and a large slice of the window that is not one of the large
\* slices given lies at the start of the data of a new HEAP block of its length,
\* the new blocks being pushed on the list of the rope, which keeps the old ones.
MergePost ==
    Merged =>
        /\ fault = "none"
        /\ \A k \in 1 .. (call.fill - 1) :
               ~(call.spans[k-1] <= HIGH_WATER /\ call.spans[k] <= HIGH_WATER)
        /\ WindowBytes(Mach(1), call.spans, call.data, call.fill, 0) = call.in.bytes
        /\ call.fill = call.in.fill - (Cardinality(Released) - Cardinality(NewBlocks))
        /\ \A k \in 0 .. (call.fill - 1) :
               call.spans[k] > HIGH_WATER =>
                   \/ \E j \in 0 .. (call.in.fill - 1) : call.data[k] = call.in.data[j]
                   \/ \E b \in NewBlocks :
                          /\ call.data[k] = Ptr(blocks[b].data, 0)
                          /\ blocks[b].len = call.spans[k] /\ blocks[b].type = "HEAP"
                          /\ blocks[b].live /\ b \in Registered(1)
        /\ Len(BlockList(blocks, sts[1].blocks)) = Cardinality(NewBlocks) + Len(call.in.list)
        /\ \A k \in 1 .. Len(BlockList(blocks, sts[1].blocks)) :
               IF k <= Cardinality(NewBlocks)
               THEN BlockList(blocks, sts[1].blocks)[k] \in NewBlocks
               ELSE BlockList(blocks, sts[1].blocks)[k]
                        = call.in.list[k - Cardinality(NewBlocks)]

\* C23, its case: merge_slices has returned on a window of 5 slices where it merged
\* twice and made a block for a pair that came to more than HIGH_WATER bytes
MergePostWitness ==
    /\ Merged /\ fault = "none"
    /\ call.in.fill = 5 /\ call.fill = 3
    /\ NewBlocks # {}

\* C24: underflow rebalance.  When child i of the root reports an underflow that
\* is not empty, the handler (after the merge of the boundary slices of two
\* leaves) returns, and either the two children have at most B slots together and
\* then all of them are in i and the slot of j is gone from the parent, or i has
\* exactly ceil(B/2) slots and j at least ceil(B/2); in both cases the bytes under
\* the two children, in order, are what they were, and so is the sum of their
\* spans in the parent.
UnderflowRebalance ==
    Rebalanced =>
        /\ fault = "none"
        /\ IF FillBoth <= B
           THEN /\ node_fill(nodes[call.root], 0) = call.fill - 1
                /\ FillAt(MIN(call.i, call.j)) = FillBoth
                /\ BytesAt(MIN(call.i, call.j)) = call.bytes
                /\ nodes[call.root].spans[MIN(call.i, call.j)] = call.spans
           ELSE /\ node_fill(nodes[call.root], 0) = call.fill
                /\ FillAt(call.i) = HalfB
                /\ FillAt(call.j) >= HalfB
                /\ BytesAt(MIN(call.i, call.j)) \o BytesAt(MAX(call.i, call.j)) = call.bytes
                /\ nodes[call.root].spans[call.i] + nodes[call.root].spans[call.j]
                       = call.spans

\* C24, its case: the underflow of a leaf was handled by moving one slot of three
\* from the sibling, the two leaves having more than B slots together
UnderflowRebalanceWitness ==
    /\ Rebalanced /\ fault = "none"
    /\ FillBoth > B
    /\ call.level = 2

\* C25: overflow split.  Whenever an insertion or a deletion inside a slice
\* overflows a node, the node is split into the left node, kept in place, and a
\* new right node; both have at least ceil(B/2) slots; the bytes of their slots,
\* left then right, are the bytes of the node with the edit applied at its
\* position; the left node spans its previous span sum plus the delta returned,
\* the right node the split size reported; and the two together span the previous
\* span sum plus the net byte change of the edit.
OverflowSplit ==
    Overflowed =>
        /\ SplitShape
        /\ (call.sum + call.r.delta) + call.r.splitsize = call.sum + call.net

\* C25, its case: the deletion inside a slice of a full leaf has split the leaf
OverflowSplitWitness ==
    /\ Overflowed /\ fault = "none"
    /\ last.op = "delete" /\ call.level = 1

\* C25 as the specification states it: the delta returned plus the split size
\* reported is the previous span sum plus the net byte change
OverflowSplitAsStated ==
    Overflowed =>
        /\ SplitShape
        /\ call.r.delta + call.r.splitsize = call.sum + call.net

\* C26: path copying frame.  After an st_insert or st_delete on a rope that shares
\* its tree with a clone, every node of the clone is still allocated; after an
\* st_insert, at each level at most two of them (the one on the descent path and
\* one sibling) have been replaced by copies and are no longer nodes of the edited
\* rope; and every node of the clone that is a node of the edited rope as well has
\* the spans, child pointers and small slice bytes it had and a refcount equal to
\* the number of parents and handles that reference it.
PathCopying ==
    SharedEdit =>
        \A h \in SharedWith :
            /\ \A e \in PreNodesOf(h) : nodes[e.node].live
            /\ last.op = "insert" =>
                   \A level \in 1 .. last.heap.sts[h].levels :
                       Cardinality({ e \in PreNodesOf(h) :
                                        /\ e.level = level
                                        /\ e.node \notin {x.node : x \in AllNodes(last.h)} })
                           <= 2
            /\ \A e \in PreNodesOf(h) :
                   e.node \in {x.node : x \in AllNodes(last.h)} =>
                       /\ Untouched(e.node, e.level)
                       /\ nodes[e.node].refc = Referrers(e.node)

NextByte ==
    Moved("st_iter_next_byte") =>
        /\ call.defined
        /\ st_iter_pos(iter) = MIN(call.was.pos + call.count, Size(iter.st))
        /\ ByteAt(MIN(call.was.pos + call.count, Size(iter.st)))
        /\ FreshAt(iter, MIN(call.was.pos + call.count, Size(iter.st)))

\* C29: st_iter_prev_byte(it, n) on an iterator at position p >= n moves it back by
\* exactly n bytes, across slice boundaries too: afterwards st_iter_pos is p - n and
\* the byte returned is the byte at offset p - n of the content; at position 0 it
\* returns -1 and does not move; st_iter_prev_chunk on the first chunk returns false.
PrevByte ==
    /\ (Moved("st_iter_prev_byte") /\ call.was.pos = 0) =>
            call.eof /\ iter = call.was
    /\ (Moved("st_iter_prev_byte") /\ call.was.pos > 0 /\ call.count <= call.was.pos
            /\ call.was.pos - call.count < Size(iter.st)) =>
            /\ call.defined
            /\ st_iter_pos(iter) = call.was.pos - call.count
            /\ ByteAt(call.was.pos - call.count)
    /\ (Moved("st_iter_prev_chunk") /\ FirstChunk(call.was)) => call.ret = FALSE

SlotSentinel ==
    fault = "none" =>
        \A n \in ReachedNodes :
            /\ \A k \in Slots : NullChild(nodes[n], k) <=> EmptySpan(nodes[n], k)
            /\ \A k \in Slots : k >= node_fill(nodes[n], 0) =>
                   NullChild(nodes[n], k) /\ EmptySpan(nodes[n], k)
            /\ \A k \in Slots : k < node_fill(nodes[n], 0) => nodes[n].spans[k] # 0
            /\ node_fill(nodes[n], 0) = span_fill(nodes[n], 0)

\* a deletion has cleared slots of a node it edited in place and left live slots in it
SlotSentinelWitness ==
    /\ fault = "none"
    /\ last.op = "delete"
    /\ \E n \in ReachedNodes \cap DOMAIN last.heap.nodes :
          /\ node_fill(nodes[n], 0) > 0
          /\ node_fill(nodes[n], 0) < node_fill(last.heap.nodes[n], 0)
          /\ \E k \in Slots : ~EmptySpan(last.heap.nodes[n], k) /\ EmptySpan(nodes[n], k)

====
